---- MODULE Spec2Model ----
(***************************************************************************)
(* Model of create_bodies_table.py: the daily slot-assignment solver       *)
(* (solve_daily_assignment, a 0/1 program handed to CP-SAT) and the        *)
(* availability matrix builder (build_player_game_matrix over the         *)
(* per-team schedule cache).                                               *)
(*                                                                         *)
(* Python lists are 0-based; the sequences here are 1-based, so slot       *)
(* index s_i and player index p_i of the source are s_i + 1 and p_i + 1.   *)
(***************************************************************************)
EXTENDS Integers, Sequences, FiniteSets, TLC

\* ---------------------------------------------------------------- bounds
MaxSlots == 3
MaxPlayers == 3
MaxRoster == 3
MaxCalls == 2

\* ------------------------------------------------------------ data model
\* Slot labels (a sub-alphabet of SLOTS) and the eligible-position tuples
\* of a Player, kept as the set of their members: the solver only ever
\* evaluates `slot in pl.pos`.
Labels == {"C", "LW"}
PosSets == SUBSET Labels

Max(S) == CHOOSE m \in S : \A n \in S : n <= m

SeqsUpTo(S, n) == UNION {[1..k -> S] : k \in 0..n}

RemoveAt(seq, i) == SubSeq(seq, 1, i - 1) \o SubSeq(seq, i + 1, Len(seq))

VARIABLES
    slots,            \* list of slot labels handed to the solver
    active_players,   \* list of Player records handed to the solver
    assignment,       \* the dict the last solver call returned: slot -> player
    pc,               \* which solver call produced `assignment`
    nhl_schedule_cache, \* _nhl_schedule_cache: (team_tri, iso week) -> dates
    requests,         \* how many requests.get calls each URL has received
    first_request,    \* how the first request to each URL ended
    players,          \* the list handed to the matrix builders
    week_start,       \* week_start of the last matrix call
    target_date,      \* target_date of the last single-date call (0: none)
    matrix,           \* the dict the last matrix call returned
    mpc,              \* which matrix call ran last and how it ended
    calls,            \* matrix calls made so far
    fetch_tri,        \* team_tri of the last direct fetch_team_week_games call
    response,         \* what requests.get brought back in that call, if asked
    fetched,          \* how that call ended: raised, or the set returned
    force,            \* args.force
    now,              \* time.time(), in seconds
    nhl_stats_cache,  \* nhl_api._nhl_stats_cache: {} or the one stats dict held
    cache_timestamp,  \* nhl_api._cache_timestamp: {} for None, or {t}
    nhl_cache_file,   \* .cache/nhl_stats.json: {} when absent, or {file}
    yahoo_fa_cache_file,  \* .cache/yahoo_free_agents.json, likewise
    stats_map,        \* what the last fetch_season_stats call returned
    available_players,    \* what fetch_available_players returned
    rpc,              \* how far the run is with its stats lookups
    idle_by_pos,      \* what calculate_idle_players returned
    weeks,            \* args.weeks
    week_num,         \* week mode: the week of the loop
    day_i,            \* week mode: days of that week done
    grid,             \* grid[s_i][col_i], without the label column
    filled_by_pos,
    empties_by_pos,
    wpc,              \* how far the week-mode run is
    run_date,         \* the date of args.date, or dt.date.today()
    initial_week_start,
    pct_by_slot,      \* the fill ratio reported for each slot index
    days_log,         \* per column done: its date, active list, assignment
    drop_player_name, \* args.recommend_add
    drop_player,      \* {} for None, or {p}: the roster player found
    current_total_filled,
    sim_i,            \* passes of the simulation loop done
    modified_players, \* the roster of the last simulation
    recommendations,
    xpc,              \* how far the recommendation run is
    args,             \* the namespace parse_args() returned
    exit_code,        \* {} while main runs, or {n} once it returned n
    apc,              \* how far main is
    roster_fetches,   \* roster loads started: Yahoo requests, file reads
    weeks_analysed,   \* {} before the analysis, or {n}: weeks it covered
    total_days,       \* total_days of the last sort_slots_by_efficiency call
    sorted_indices,   \* {} before that call, or {list}: what it returned
    provider,         \* the stats provider: its records, the total it reports
    call_force,       \* force_refresh of the fetch_season_stats call followed
    current_time,     \* current_time of that call
    before_call,      \* the caches as that call found them
    start,            \* start of the pagination loop
    total_fetched,
    page_map,         \* stats_map of the loop: the records fetched so far
    page_log,         \* the requests of that call: start, and what came back
    ppc,              \* how far that call is
    configured,       \* config.validate() passes
    access_token,     \* YahooClient.access_token, {} for None
    refresh_token,    \* YahooClient.refresh_token, {} for None
    token_expiry,     \* YahooClient.token_expiry, {} for None
    wall,             \* time.time(), in seconds since the client was built
    via_api,          \* the call under way is _api_request, not authorize
    at_call,          \* the tokens and the time as authorize() found them
    refresh_result,   \* how _refresh_access_token ended in this call
    trace,            \* the token checks and network calls of this call
    upc               \* how far the Yahoo client's call is

solver_vars == <<slots, active_players, assignment, pc>>

fetch_vars == <<fetch_tri, response, fetched>>

matrix_vars == <<nhl_schedule_cache, requests, first_request, players,
                 week_start, target_date, matrix, mpc, calls, fetch_vars>>

stats_vars == <<force, now, nhl_stats_cache, cache_timestamp, nhl_cache_file,
                yahoo_fa_cache_file, stats_map, available_players, rpc>>

week_vars == <<weeks, week_num, day_i, grid, filled_by_pos, empties_by_pos,
               wpc, run_date, initial_week_start, pct_by_slot, days_log>>

report_vars == <<idle_by_pos, week_vars>>

recommend_vars == <<drop_player_name, drop_player, current_total_filled,
                    sim_i, modified_players, recommendations, xpc>>

args_vars == <<args, exit_code, apc, roster_fetches, weeks_analysed>>

sort_vars == <<total_days, sorted_indices>>

page_vars == <<provider, call_force, current_time, before_call, start,
               total_fetched, page_map, page_log, ppc>>

auth_vars == <<configured, access_token, refresh_token, token_expiry, wall,
               via_api, at_call, refresh_result, trace, upc>>

\* The variables of the comparison and recommendation modes, of the
\* command line, of the report's row order, of the stats pagination and
\* of the Yahoo client's authorisation.
mode_vars == <<recommend_vars, args_vars, sort_vars, page_vars, auth_vars>>

vars == <<solver_vars, matrix_vars, stats_vars, report_vars, mode_vars>>

\* ---------------------------------------------------------------- solver
AllPlayers(s, ap, sl) == 1..Len(ap)

\* The players p_i for which x[(s_i, p_i)] exists: `if slot in pl.pos`.
VarsInSlot(s, ap, sl) == {p \in 1..Len(ap) : sl[s] \in ap[p].pos}

\* x: one Boolean variable per eligible (slot, player) pair.
XVars(ap, sl) ==
    {sp \in (1..Len(sl)) \X (1..Len(ap)) : sp[2] \in VarsInSlot(sp[1], ap, sl)}

AnyPlayer(V, p) == TRUE

\* "Each player: at most 1 slot": the variable of player p can still be
\* set to 1 on top of valuation V only if V has set none of p's variables.
PlayerConstraint(V, p) == \A v \in V : v[2] # p

\* The solutions of the CpModel restricted to the variables of slots 1..s.
\* A valuation is the set V of variables set to 1.  "Each slot: at most 1
\* player" allows slot s to add no variable or exactly one of its own.
RECURSIVE FeasibleSolutions(_, _, _)
FeasibleSolutions(s, ap, sl) ==
    IF s = 0 THEN {{}}
    ELSE LET prev == FeasibleSolutions(s - 1, ap, sl)
             more == {vp \in prev \X VarsInSlot(s, ap, sl) :
                         PlayerConstraint(vp[1], vp[2])}
         IN  prev \cup {vp[1] \cup {<<s, vp[2]>>} : vp \in more}

\* model.Maximize(sum(x.values()) if x else 0)
Objective(V) == Cardinality(V)

AnySolution(F) == F

\* Solutions no variable can be added to, as a greedy fill produces.
MaximalSolutions(F) == {V \in F : \A W \in F : ~(V \subseteq W /\ V # W)}

\* What solver.Solve leaves in the variables with status OPTIMAL: any
\* solution of maximal objective (which one is up to the solver).
OptimalSolutions(F) ==
    LET best == Max({Objective(V) : V \in F})
    IN  {V \in F : Objective(V) = best}

\* A variant that starts from an entry for every slot (0 standing for "no
\* player") instead of from the empty dict.
ExtractEverySlot(V, ap, sl) ==
    [s \in 1..Len(sl) |->
        IF \E v \in V : v[1] = s THEN Max({v[2] : v \in {w \in V : w[1] = s}})
        ELSE 0]

\* for (s_i, p_i), var in x.items(): if Value(var) == 1: assignment[s_i] = p_i
\* x was filled slot by slot, player by player, so a later p_i overwrites.
ExtractAssignment(V, ap, sl) ==
    LET ones == V \cap XVars(ap, sl)
    IN  [s \in {v[1] : v \in ones} |->
            Max({v[2] : v \in {w \in ones : w[1] = s}})]

\* The set of dicts solve_daily_assignment may return.  The solver runs
\* under max_time_in_seconds = 2.0; on lists of the sizes modelled here it
\* proves optimality, so the status is OPTIMAL and the branch
\* `status in (OPTIMAL, FEASIBLE)` is taken.
solve_daily_assignment(ap, sl) ==
    {ExtractAssignment(V, ap, sl) :
        V \in OptimalSolutions(FeasibleSolutions(Len(sl), ap, sl))}

Size(a) == Cardinality(DOMAIN a)

\* ------------------------------------------------------- solver call sites
Player(n, t, ps) == [name |-> n, team |-> t, pos |-> ps]

SolverPlayer(ps) == Player("p", "COL", ps)

\* Module load: the schedule cache is empty and nothing was requested.
MatrixIdle ==
    /\ nhl_schedule_cache = <<>>
    /\ requests = <<>>
    /\ first_request = <<>>
    /\ week_start = 0
    /\ target_date = 0
    /\ matrix = <<>>
    /\ mpc = "start"
    /\ calls = 0
    /\ fetch_tri = ""
    /\ response = [status |-> "none", key |-> "", is_list |-> FALSE, games |-> <<>>]
    /\ fetched = [raised |-> FALSE, dates |-> {}]

\* A run whose reports are not followed.
ReportIdle ==
    /\ idle_by_pos = <<>>
    /\ weeks = 0
    /\ week_num = 0
    /\ day_i = 0
    /\ grid = <<>>
    /\ filled_by_pos = <<>>
    /\ empties_by_pos = <<>>
    /\ wpc = "idle"
    /\ run_date = 0
    /\ initial_week_start = 0
    /\ pct_by_slot = <<>>
    /\ days_log = <<>>

\* A run whose command line is not followed.
ArgsIdle ==
    /\ args = <<>>
    /\ exit_code = {}
    /\ apc = "idle"
    /\ roster_fetches = 0
    /\ weeks_analysed = {}

\* A run that has printed no table.
SortIdle ==
    /\ total_days = 0
    /\ sorted_indices = {}

\* No fetch_season_stats call is followed request by request.
PageIdle ==
    /\ provider = <<>>
    /\ call_force = FALSE
    /\ current_time = 0
    /\ before_call = <<>>
    /\ start = 0
    /\ total_fetched = 0
    /\ page_map = {}
    /\ page_log = <<>>
    /\ ppc = "idle"

\* A run outside --recommend-add.
RecommendIdle ==
    /\ drop_player_name = ""
    /\ drop_player = {}
    /\ current_total_filled = 0
    /\ sim_i = 0
    /\ modified_players = <<>>
    /\ recommendations = <<>>
    /\ xpc = "idle"

\* No Yahoo client is built.
AuthIdle ==
    /\ configured = FALSE
    /\ access_token = {}
    /\ refresh_token = {}
    /\ token_expiry = {}
    /\ wall = 0
    /\ via_api = FALSE
    /\ at_call = {}
    /\ refresh_result = "none"
    /\ trace = <<>>
    /\ upc = "idle"

ModeIdle == RecommendIdle /\ ArgsIdle /\ SortIdle /\ PageIdle /\ AuthIdle

\* A run whose stats lookups are not followed.
StatsIdle ==
    /\ force = FALSE
    /\ now = 0
    /\ nhl_stats_cache = {}
    /\ cache_timestamp = {}
    /\ nhl_cache_file = {}
    /\ yahoo_fa_cache_file = {}
    /\ stats_map = {}
    /\ available_players = {}
    /\ rpc = "idle"

InitSolver ==
    /\ ModeIdle
    /\ slots \in SeqsUpTo(Labels, MaxSlots)
    /\ active_players \in SeqsUpTo({SolverPlayer(ps) : ps \in PosSets}, MaxPlayers)
    /\ assignment = <<>>
    /\ pc = "ready"
    /\ players = <<>>
    /\ MatrixIdle
    /\ StatsIdle
    /\ ReportIdle

\* current_assignment = solve_daily_assignment(current_active, SLOTS)
Solve ==
    /\ pc = "ready"
    /\ assignment' \in solve_daily_assignment(active_players, slots)
    /\ pc' = "solved"
    /\ UNCHANGED <<slots, active_players, matrix_vars, stats_vars, report_vars, mode_vars>>

\* modified_players.append(avail_player), then the solver on the new list.
AddPlayer ==
    /\ pc = "solved"
    /\ Len(active_players) < MaxPlayers
    /\ \E ps \in PosSets : active_players' = Append(active_players, SolverPlayer(ps))
    /\ assignment' \in solve_daily_assignment(active_players', slots)
    /\ pc' = "added"
    /\ UNCHANGED <<slots, matrix_vars, stats_vars, report_vars, mode_vars>>

\* [p for p in players if p.name != drop_player_name], then the solver on
\* the new list.
DropPlayer ==
    /\ pc = "solved"
    /\ \E i \in 1..Len(active_players) :
          active_players' = RemoveAt(active_players, i)
    /\ assignment' \in solve_daily_assignment(active_players', slots)
    /\ pc' = "dropped"
    /\ UNCHANGED <<slots, matrix_vars, stats_vars, report_vars, mode_vars>>

\* A later day of the loop with the same active list: an identical call,
\* made after the calls above.
SolveAgain ==
    /\ pc \in {"solved", "added", "dropped"}
    /\ assignment' \in solve_daily_assignment(active_players, slots)
    /\ pc' = "resolved"
    /\ UNCHANGED <<slots, active_players, matrix_vars, stats_vars, report_vars, mode_vars>>

NextSolver == Solve \/ AddPlayer \/ DropPlayer \/ SolveAgain

SpecSolver == InitSolver /\ [][NextSolver]_vars

\* --------------------------------------------------------- calendar dates
\* A date is its day number in January 2024; 2024-01-01 is a Monday.
IsoTable ==
    <<"2024-01-01", "2024-01-02", "2024-01-03", "2024-01-04", "2024-01-05",
      "2024-01-06", "2024-01-07", "2024-01-08", "2024-01-09", "2024-01-10",
      "2024-01-11", "2024-01-12", "2024-01-13", "2024-01-14", "2024-01-15",
      "2024-01-16", "2024-01-17", "2024-01-18", "2024-01-19", "2024-01-20",
      "2024-01-21", "2024-01-22", "2024-01-23", "2024-01-24", "2024-01-25",
      "2024-01-26", "2024-01-27", "2024-01-28", "2024-01-29", "2024-01-30",
      "2024-01-31">>

\* The dates the callers ask about: a Sunday and the Monday after it.
Dates == 7..8

\* date.isoformat()
IsoFormat(d) == IsoTable[d]

\* date.fromisoformat raises ValueError on a string that names no date.
IsIsoDate(s) == \E d \in DOMAIN IsoTable : IsoTable[d] = s

\* date.weekday(): Monday = 0
Weekday(d) == (d - 1) % 7

\* A variant that moves on to the next Monday.
NextMonday(today) == today + ((7 - Weekday(today)) % 7)

week_start_monday(today) == today - Weekday(today)

\* -------------------------------------------------------- team code mapping
YAHOO_TO_NHL_TRI ==
    [t \in {"NJ", "LA", "SJ", "TB", "VGK"} |->
        CASE t = "NJ" -> "njd"
          [] t = "LA" -> "lak"
          [] t = "SJ" -> "sjs"
          [] t = "TB" -> "tbl"
          [] t = "VGK" -> "vgk"]

RECURSIVE Upper(_)
Upper(s) ==
    LET
        UpperChar(c) ==
            CASE c = "c" -> "C" [] c = "o" -> "O" [] c = "l" -> "L"
              [] c = "n" -> "N" [] c = "j" -> "J" [] c = "d" -> "D"
              [] c = "k" -> "K"
              [] OTHER -> c
    IN
        IF Len(s) = 0 THEN ""
        ELSE UpperChar(SubSeq(s, 1, 1)) \o Upper(SubSeq(s, 2, Len(s)))

RECURSIVE Lower(_)
Lower(s) ==
    LET
        LowerChar(c) ==
            CASE c = "C" -> "c" [] c = "O" -> "o" [] c = "L" -> "l"
              [] c = "N" -> "n" [] c = "J" -> "j" [] c = "D" -> "d"
              [] c = "K" -> "k"
              [] OTHER -> c
    IN
        IF Len(s) = 0 THEN ""
        ELSE LowerChar(SubSeq(s, 1, 1)) \o Lower(SubSeq(s, 2, Len(s)))

RECURSIVE Strip(_)
Strip(s) ==
    IF Len(s) = 0 THEN s
    ELSE IF SubSeq(s, 1, 1) = " " THEN Strip(SubSeq(s, 2, Len(s)))
    ELSE IF SubSeq(s, Len(s), Len(s)) = " " THEN Strip(SubSeq(s, 1, Len(s) - 1))
    ELSE s

LowerOnly(team) == Lower(team)

\* team.strip().upper(), then YAHOO_TO_NHL_TRI.get(team, team.lower())
yahoo_team_to_nhl_tri(team) ==
    LET up == Upper(Strip(team))
    IN  IF up \in DOMAIN YAHOO_TO_NHL_TRI THEN YAHOO_TO_NHL_TRI[up] ELSE Lower(up)

\* ------------------------------------------------------ schedule provider
\* A gameDate value of a game record: a string, or None.
Str(s) == [is_str |-> TRUE, text |-> s]

\* The lists of gameDate values a response for week ws may carry.
GameLists(ws) ==
    LET
        None == [is_str |-> FALSE, text |-> ""]
    IN
        { <<>>,
          <<Str(IsoFormat(ws + 6) \o "T19:00:00Z")>>,
          <<Str("TBD"), Str(IsoFormat(ws)), Str(IsoFormat(ws + 7))>>,
          <<None, Str("2024-13-45")>> }

\* What requests.get(url) can bring back: a failure (connection error,
\* HTTP error status, body that is no JSON), or a JSON object holding
\* `games` under `key`, as a list or not.
Responses(ws) ==
    {[status |-> "error", key |-> "", is_list |-> FALSE, games |-> <<>>]}
    \cup [status : {"ok"},
          key : {"games", "gameWeek", "weekGames", "schedule"},
          is_list : BOOLEAN,
          games : GameLists(ws)]

\* ----------------------------------------------------- fetch_team_week_games
\* A variant of the key that leaves the week out.
TeamOnlyKey(team_tri, ws) == <<team_tri, "">>

CacheKey(team_tri, ws) == <<team_tri, IsoFormat(ws)>>

NeverCached(key, cache) == FALSE

\* if cache_key in _nhl_schedule_cache
CacheHit(key, cache) == key \in DOMAIN cache

Put(f, k, v) == [x \in DOMAIN f \cup {k} |-> IF x = k THEN v ELSE f[x]]

Get(f, k, default) == IF k \in DOMAIN f THEN f[k] ELSE default

\* The bookkeeping of one requests.get on the URL of `key`.
Requested(st, key, ended) ==
    [st EXCEPT
        !.requests = Put(@, key, Get(@, key, 0) + 1),
        !.first_request = IF key \in DOMAIN @ THEN @ ELSE Put(@, key, ended)]

\* What the code makes of response r, before the cache is written:
\* raise_for_status() / r.json() raise, or game_dates is built.
ParseResponse(r) ==
    LET
        FromIsoFormat(s) == CHOOSE d \in DOMAIN IsoTable : IsoTable[d] = s
    IN
        LET
            \* isinstance(gd, str) and len(gd) >= 10, then fromisoformat(gd[:10]),
            \* a ValueError skipping the game.
            GameDates(games) ==
                LET usable == {i \in 1..Len(games) :
                                  /\ games[i].is_str
                                  /\ Len(games[i].text) >= 10
                                  /\ IsIsoDate(SubSeq(games[i].text, 1, 10))}
                IN  {FromIsoFormat(SubSeq(games[i].text, 1, 10)) : i \in usable}
        IN
            LET
                \* for key in ("games", "gameWeek", "weekGames"): the first list found
                GamesOf(data) ==
                    IF data.key \in {"games", "gameWeek", "weekGames"} /\ data.is_list
                    THEN data.games
                    ELSE <<>>
            IN
                IF r.status = "error"
                THEN [raised |-> TRUE, dates |-> {}]
                ELSE [raised |-> FALSE, dates |-> GameDates(GamesOf(r))]

\* ParseResponse over each possible response for week ws.
Fetched ==
    [ws \in {d \in DOMAIN IsoTable :
                Weekday(d) = 0 /\ d + 7 \in DOMAIN IsoTable} |->
        {ParseResponse(r) : r \in Responses(ws)}]

\* The end of a call that had to ask the provider and made f of the
\* response: the exception leaves the cache alone, a result is cached.
FetchOutcome(key, st, f) ==
    IF f.raised
    THEN [raised |-> TRUE, dates |-> {}, st |-> Requested(st, key, "failed")]
    ELSE [raised |-> FALSE, dates |-> f.dates,
          st |-> [Requested(st, key, "ok") EXCEPT
                     !.cache = Put(@, key, f.dates)]]

\* The outcomes of fetch_team_week_games(team_tri, week_start) from the
\* cache and request history st: the call raises, or returns `dates`.
fetch_team_week_games(tri, ws, st) ==
    LET key == CacheKey(tri, ws)
    IN  IF CacheHit(key, st.cache)
        THEN {[raised |-> FALSE, dates |-> st.cache[key], st |-> st]}
        ELSE {FetchOutcome(key, st, f) : f \in Fetched[ws]}

\* --------------------------------------------------- build_player_game_matrix
\* One pass of `for p in players` over the running outcome o.
WeekLoopStep(o, p, ws) ==
    LET tri == yahoo_team_to_nhl_tri(p.team)
    IN  IF o.raised \/ tri \in DOMAIN o.team_to_dates THEN {o}
        ELSE {[raised |-> f.raised,
               team_to_dates |-> IF f.raised THEN o.team_to_dates
                                 ELSE Put(o.team_to_dates, tri, f.dates),
               st |-> f.st] : f \in fetch_team_week_games(tri, ws, o.st)}

RECURSIVE WeekLoop(_, _, _, _)
WeekLoop(ps, n, ws, st) ==
    IF n = 0 THEN {[raised |-> FALSE, team_to_dates |-> <<>>, st |-> st]}
    ELSE UNION {WeekLoopStep(o, ps[n], ws) : o \in WeekLoop(ps, n - 1, ws, st)}

FirstIndex(ps, name) == CHOOSE i \in 1..Len(ps) :
    ps[i].name = name /\ \A j \in 1..Len(ps) : ps[j].name = name => i <= j

\* In a dict comprehension a later item of the same key overwrites.
LastIndex(ps, name) == CHOOSE i \in 1..Len(ps) :
    ps[i].name = name /\ \A j \in 1..Len(ps) : ps[j].name = name => j <= i

\* A variant in which the first item of a key is kept.
WeekDictFirst(ps, team_to_dates) ==
    [name \in {ps[i].name : i \in 1..Len(ps)} |->
        team_to_dates[yahoo_team_to_nhl_tri(ps[FirstIndex(ps, name)].team)]]

\* {p.name: team_to_dates[yahoo_team_to_nhl_tri(p.team)] for p in players}
WeekDict(ps, team_to_dates) ==
    [name \in {ps[i].name : i \in 1..Len(ps)} |->
        team_to_dates[yahoo_team_to_nhl_tri(ps[LastIndex(ps, name)].team)]]

\* The outcomes of build_player_game_matrix(players, week_start).
build_player_game_matrix(ps, ws, st) ==
    {[raised |-> o.raised,
      result |-> IF o.raised THEN <<>> ELSE WeekDict(ps, o.team_to_dates),
      st |-> o.st] : o \in WeekLoop(ps, Len(ps), ws, st)}

\* ---------------------------------------------- build_single_date_game_matrix
\* A variant in which the first entry written under a name is kept.
DayLoopStepKeepFirst(o, p, date) ==
    IF o.raised THEN {o}
    ELSE {[raised |-> f.raised,
           team_games |-> o.team_games,
           result |-> IF f.raised \/ p.name \in DOMAIN o.result THEN o.result
                      ELSE Put(o.result, p.name, date \in f.dates),
           st |-> f.st]
          : f \in fetch_team_week_games(yahoo_team_to_nhl_tri(p.team),
                                        week_start_monday(date), o.st)}

\* One pass of `for p in players`: result[p.name] is written in the loop.
DayLoopStep(o, p, date) ==
    LET tri == yahoo_team_to_nhl_tri(p.team)
    IN  IF o.raised THEN {o}
        ELSE IF tri \in DOMAIN o.team_games
        THEN {[o EXCEPT !.result = Put(@, p.name, o.team_games[tri])]}
        ELSE {[raised |-> f.raised,
               team_games |-> IF f.raised THEN o.team_games
                              ELSE Put(o.team_games, tri, date \in f.dates),
               result |-> IF f.raised THEN o.result
                          ELSE Put(o.result, p.name, date \in f.dates),
               st |-> f.st]
              : f \in fetch_team_week_games(tri, week_start_monday(date), o.st)}

RECURSIVE DayLoop(_, _, _, _)
DayLoop(ps, n, date, st) ==
    IF n = 0
    THEN {[raised |-> FALSE, team_games |-> <<>>, result |-> <<>>, st |-> st]}
    ELSE UNION {DayLoopStep(o, ps[n], date) : o \in DayLoop(ps, n - 1, date, st)}

\* The outcomes of build_single_date_game_matrix(players, target_date).
build_single_date_game_matrix(ps, date, st) ==
    {[raised |-> o.raised,
      result |-> IF o.raised THEN <<>> ELSE o.result,
      st |-> o.st] : o \in DayLoop(ps, Len(ps), date, st)}

\* ------------------------------------------------------ matrix call sites
\* Roster players: two names, three spellings of two NHL teams; the two
\* Ahos are different players.
PlayerPool ==
    {Player("Aho", "NJ", {"C"}), Player("Kane", "NJD ", {"C"}),
     Player("Aho", "Col", {"C"})}

State == [cache |-> nhl_schedule_cache, requests |-> requests,
          first_request |-> first_request]

SetState(st) ==
    /\ nhl_schedule_cache' = st.cache
    /\ requests' = st.requests
    /\ first_request' = st.first_request

InitMatrix ==
    /\ ModeIdle
    /\ players \in SeqsUpTo(PlayerPool, MaxRoster)
    /\ MatrixIdle
    /\ StatsIdle
    /\ ReportIdle
    /\ slots = <<>>
    /\ active_players = <<>>
    /\ assignment = <<>>
    /\ pc = "ready"

\* p_games = build_player_game_matrix(players, week_start), week_start
\* being the Monday of some date.
BuildWeek ==
    /\ calls < MaxCalls
    /\ \E ps \in {players}, ws \in {week_start_monday(d) : d \in Dates} :
        \E o \in build_player_game_matrix(ps, ws, State) :
            /\ players' = ps
            /\ week_start' = ws
            /\ target_date' = 0
            /\ matrix' = o.result
            /\ mpc' = IF o.raised THEN "week_raised" ELSE "week"
            /\ SetState(o.st)
    /\ calls' = calls + 1
    /\ UNCHANGED <<solver_vars, fetch_vars, stats_vars, report_vars, mode_vars>>

\* roster_games = build_single_date_game_matrix(players, target_date)
BuildDay ==
    /\ calls < MaxCalls
    /\ \E ps \in {players}, date \in Dates :
        \E o \in build_single_date_game_matrix(ps, date, State) :
            /\ players' = ps
            /\ week_start' = week_start_monday(date)
            /\ target_date' = date
            /\ matrix' = o.result
            /\ mpc' = IF o.raised THEN "day_raised" ELSE "day"
            /\ SetState(o.st)
    /\ calls' = calls + 1
    /\ UNCHANGED <<solver_vars, fetch_vars, stats_vars, report_vars, mode_vars>>

NextMatrix == BuildWeek \/ BuildDay

SpecMatrix == InitMatrix /\ [][NextMatrix]_vars

\* ------------------------------------------- fetch_team_week_games, called
InitFetch ==
    /\ ModeIdle
    /\ players = <<>>
    /\ MatrixIdle
    /\ StatsIdle
    /\ ReportIdle
    /\ slots = <<>>
    /\ active_players = <<>>
    /\ assignment = <<>>
    /\ pc = "ready"

NhlTris == {yahoo_team_to_nhl_tri(p.team) : p \in PlayerPool}

\* fetch_team_week_games(tri, week_start) finds its key in the cache.
FetchCached ==
    /\ calls < MaxCalls
    /\ \E tri \in NhlTris, ws \in {week_start_monday(d) : d \in Dates} :
        /\ CacheHit(CacheKey(tri, ws), nhl_schedule_cache)
        /\ \E o \in fetch_team_week_games(tri, ws, State) :
            /\ fetch_tri' = tri
            /\ week_start' = ws
            /\ response' = [status |-> "none", key |-> "", is_list |-> FALSE,
                            games |-> <<>>]
            /\ fetched' = [raised |-> o.raised, dates |-> o.dates]
            /\ SetState(o.st)
    /\ mpc' = "fetch_cached"
    /\ calls' = calls + 1
    /\ UNCHANGED <<solver_vars, players, target_date, matrix, stats_vars, report_vars, mode_vars>>

\* fetch_team_week_games(tri, week_start) asks the provider, which
\* answers r.
FetchRequest ==
    /\ calls < MaxCalls
    /\ \E tri \in NhlTris, ws \in {week_start_monday(d) : d \in Dates} :
        /\ ~CacheHit(CacheKey(tri, ws), nhl_schedule_cache)
        /\ \E r \in Responses(ws) :
            LET o == FetchOutcome(CacheKey(tri, ws), State, ParseResponse(r))
            IN  /\ fetch_tri' = tri
                /\ week_start' = ws
                /\ response' = r
                /\ fetched' = [raised |-> o.raised, dates |-> o.dates]
                /\ SetState(o.st)
    /\ mpc' = "fetch"
    /\ calls' = calls + 1
    /\ UNCHANGED <<solver_vars, players, target_date, matrix, stats_vars, report_vars, mode_vars>>

NextFetch == FetchCached \/ FetchRequest

SpecFetch == InitFetch /\ [][NextFetch]_vars

\* ------------------------------------------------- the cache across a run
\* The active slots of the league, cut down to the labels of the model.
SLOTS == <<"C", "C", "LW">>

\* if args.force: _nhl_schedule_cache.clear(), before anything is fetched.
ForceClear ==
    /\ mpc = "start"
    /\ nhl_schedule_cache' = <<>>
    /\ mpc' = "cleared"
    /\ UNCHANGED <<solver_vars, requests, first_request, players, week_start,
                   target_date, matrix, calls, fetch_vars, stats_vars, report_vars, mode_vars>>

\* active = [p for p in players if day_date in p_games.get(p.name, set())]
Active(ps, p_games, day_date) ==
    LET Plays(p) == day_date \in Get(p_games, p.name, {})
    IN  SelectSeq(ps, Plays)

\* assignment = solve_daily_assignment(active, SLOTS) for one day of the
\* week whose matrix was built last.
SolveDay ==
    /\ mpc = "week"
    /\ calls < MaxCalls
    /\ \E day_date \in week_start..(week_start + 6) :
        /\ target_date' = day_date
        /\ active_players' = Active(players, matrix, day_date)
        /\ slots' = SLOTS
        /\ assignment' \in solve_daily_assignment(active_players', SLOTS)
    /\ pc' = "solved"
    /\ calls' = calls + 1
    /\ UNCHANGED <<nhl_schedule_cache, requests, first_request, players,
                   week_start, matrix, mpc, fetch_vars, stats_vars, report_vars, mode_vars>>

\* The rosters of the runs followed here: one player, and two players of
\* one name on two teams.
CacheRosters ==
    {<<Player("Kane", "NJD ", {"C"})>>,
     <<Player("Aho", "NJ", {"C"}), Player("Aho", "Col", {"C"})>>}

InitCache ==
    /\ ModeIdle
    /\ players \in CacheRosters
    /\ MatrixIdle
    /\ StatsIdle
    /\ ReportIdle
    /\ slots = <<>>
    /\ active_players = <<>>
    /\ assignment = <<>>
    /\ pc = "ready"

NextCache == ForceClear \/ NextFetch \/ NextMatrix \/ SolveDay

SpecCache == InitCache /\ [][NextCache]_vars

\* ------------------------------------------- season stats and free agents
\* A dict or list of fetched data is {} when empty, or holds the one
\* record [at |-> t] saying when the provider was asked for it. A file
\* is [mtime, data].
cache_ttl == 86400

fa_cache_ttl == 3600

MaxTicks == 2

\* Time moves in steps of half a stats TTL.
HalfTtl == cache_ttl \div 2

\* The run starts one and a half TTLs after time 0.
RunStart == 3 * HalfTtl

TheFile(file) == CHOOSE f \in file : TRUE

\* _load_cache_from_disk(): None unless the file exists and age <= TTL.
load_cache_from_disk(file, t) ==
    IF file = {} THEN {}
    ELSE IF t - TheFile(file).mtime > cache_ttl THEN {}
    ELSE TheFile(file).data

\* A variant that still trusts the cache when exactly a TTL has passed.
MemoryFreshAtTtl(st, t) ==
    st.mem # {} /\ \E ts \in st.ts : t - ts <= cache_ttl

\* _nhl_stats_cache and _cache_timestamp and (current_time -
\* _cache_timestamp) < _cache_ttl
MemoryFresh(st, t) ==
    st.mem # {} /\ \E ts \in st.ts : t - ts < cache_ttl

\* The paginated requests: an exception is caught and {} returned with
\* nothing changed; otherwise the new dict replaces the in-memory one and
\* is saved to disk, the save failing silently at worst.
ApiFetch(st, t) ==
    LET new == {[at |-> t]}
    IN  {[ret |-> {}, st |-> st]}
        \cup {[ret |-> new, st |-> [mem |-> new, ts |-> {t}, disk |-> d]]
              : d \in {st.disk, {[mtime |-> t, data |-> new]}}}

\* The outcomes of fetch_season_stats(force_refresh=...) at time t with
\* st = [mem, ts, disk].
fetch_season_stats(force_refresh, st, t) ==
    IF ~force_refresh /\ MemoryFresh(st, t)
    THEN {[ret |-> st.mem, st |-> st]}
    ELSE IF ~force_refresh /\ load_cache_from_disk(st.disk, t) # {}
    THEN {[ret |-> load_cache_from_disk(st.disk, t),
           st |-> [st EXCEPT !.mem = load_cache_from_disk(st.disk, t),
                             !.ts = {t}]]}
    ELSE ApiFetch(st, t)

\* _load_fa_cache(league_id) for the league the file was written for.
load_fa_cache(file, t) ==
    IF file = {} THEN {}
    ELSE IF t - TheFile(file).mtime > fa_cache_ttl THEN {}
    ELSE TheFile(file).data

\* The outcomes of fetch_available_players(count=100, use_cache=...): the
\* cached list, or the list the API gave, saved if the save works, or the
\* exception of a failed request.
fetch_available_players(use_cache, file, t) ==
    IF use_cache /\ load_fa_cache(file, t) # {}
    THEN {[raised |-> FALSE, ret |-> load_fa_cache(file, t), file |-> file]}
    ELSE {[raised |-> TRUE, ret |-> {}, file |-> file]}
         \cup {[raised |-> FALSE, ret |-> {[at |-> t]}, file |-> f]
               : f \in {file, {[mtime |-> t, data |-> {[at |-> t]}]}}}

StatsState == [mem |-> nhl_stats_cache, ts |-> cache_timestamp,
               disk |-> nhl_cache_file]

SetStatsState(st) ==
    /\ nhl_stats_cache' = st.mem
    /\ cache_timestamp' = st.ts
    /\ nhl_cache_file' = st.disk

\* The files an earlier run may have left: none, a stale one, a fresh one.
OldFiles(age) ==
    {{}, {[mtime |-> 0, data |-> {[at |-> 0]}]},
     {[mtime |-> RunStart - age, data |-> {[at |-> RunStart - age]}]}}

\* A process starts with empty module-level caches and whatever is on
\* disk, with or without --force.
InitForce ==
    /\ ModeIdle
    /\ players \in {ps \in CacheRosters : Len(ps) = 1}
    /\ MatrixIdle
    /\ slots = <<>>
    /\ active_players = <<>>
    /\ assignment = <<>>
    /\ pc = "ready"
    /\ force \in BOOLEAN
    /\ now = RunStart
    /\ nhl_stats_cache = {}
    /\ cache_timestamp = {}
    /\ nhl_cache_file \in OldFiles(HalfTtl)
    /\ yahoo_fa_cache_file \in OldFiles(fa_cache_ttl)
    /\ stats_map = {}
    /\ available_players = {}
    /\ rpc = "start"
    /\ ReportIdle

\* Time passes while the run waits for a provider.
Tick ==
    /\ rpc \in {"start", "fa", "stats", "gp"}
    /\ now < RunStart + MaxTicks * HalfTtl
    /\ now' = now + HalfTtl
    /\ UNCHANGED <<solver_vars, matrix_vars, force, nhl_stats_cache,
                   cache_timestamp, nhl_cache_file, yahoo_fa_cache_file,
                   stats_map, available_players, rpc, report_vars, mode_vars>>

\* available_players = client.fetch_available_players(count=100,
\* use_cache=not args.force)
FetchAvailablePlayers ==
    /\ rpc = "start"
    /\ force => mpc = "cleared"
    /\ \E o \in fetch_available_players(~force, yahoo_fa_cache_file, now) :
        /\ available_players' = o.ret
        /\ yahoo_fa_cache_file' = o.file
        /\ rpc' = IF o.raised THEN "aborted" ELSE "fa"
    /\ UNCHANGED <<solver_vars, matrix_vars, force, now, nhl_stats_cache,
                   cache_timestamp, nhl_cache_file, stats_map, report_vars, mode_vars>>

\* nhl_api.fetch_season_stats(force_refresh=args.force)
PrefetchStats ==
    /\ rpc = "fa"
    /\ \E o \in fetch_season_stats(force, StatsState, now) :
        /\ stats_map' = o.ret
        /\ SetStatsState(o.st)
    /\ rpc' = "stats"
    /\ UNCHANGED <<solver_vars, matrix_vars, force, now, yahoo_fa_cache_file,
                   available_players, report_vars, mode_vars>>

\* nhl_api.get_games_played(name, team): stats_map =
\* fetch_season_stats(season), then the lookup in it.
GetGamesPlayed ==
    /\ rpc \in {"stats", "gp"}
    /\ \E o \in fetch_season_stats(FALSE, StatsState, now) :
        /\ stats_map' = o.ret
        /\ SetStatsState(o.st)
    /\ rpc' = "gp"
    /\ UNCHANGED <<solver_vars, matrix_vars, force, now, yahoo_fa_cache_file,
                   available_players, report_vars, mode_vars>>

\* if args.force: the clear, in a run started with --force.
ForcedClear == force /\ rpc = "start" /\ ForceClear

NextForce ==
    \/ Tick \/ ForcedClear \/ FetchAvailablePlayers \/ PrefetchStats
    \/ GetGamesPlayed \/ BuildDay

SpecForce == InitForce /\ [][NextForce]_vars

\* ---------------------------------------------------- calculate_idle_players
\* A variant that counts each label of the slot list once.
CountDistinctSlots(sl, n) == [pos \in {sl[s] : s \in 1..n} |-> 1]

\* slots_by_pos after the first n passes of `for slot in slots`.
RECURSIVE CountSlots(_, _)
CountSlots(sl, n) ==
    IF n = 0 THEN <<>>
    ELSE Put(CountSlots(sl, n - 1), sl[n], Get(CountSlots(sl, n - 1), sl[n], 0) + 1)

\* eligible_by_pos after the first n passes of `for player in players`.
RECURSIVE CountEligible(_, _)
CountEligible(ps, n) ==
    LET
        \* `for pos in player.pos`: one more for every position of the player.
        CountPositions(d, positions) ==
            [pos \in DOMAIN d \cup positions |->
                Get(d, pos, 0) + IF pos \in positions THEN 1 ELSE 0]
    IN
        IF n = 0 THEN <<>>
        ELSE CountPositions(CountEligible(ps, n - 1), ps[n].pos)

calculate_idle_players(ps, sl) ==
    LET slots_by_pos == CountSlots(sl, Len(sl))
        eligible_by_pos == CountEligible(ps, Len(ps))
        idle(pos) == Max({0, eligible_by_pos[pos] - Get(slots_by_pos, pos, 0)})
    IN  [pos \in {q \in DOMAIN eligible_by_pos : idle(q) > 0} |-> idle(pos)]

\* idle_by_pos = calculate_idle_players(players, SLOTS), after the solver
\* ran; here the whole roster plays on the day solved.
CalculateIdle ==
    /\ pc \in {"solved", "resolved"}
    /\ idle_by_pos' = calculate_idle_players(active_players, slots)
    /\ pc' = "idle"
    /\ UNCHANGED <<slots, active_players, assignment, matrix_vars, stats_vars,
                   week_vars, mode_vars>>

NextIdle == Solve \/ SolveAgain \/ CalculateIdle

SpecIdle == InitSolver /\ [][NextIdle]_vars

\* ------------------------------------------------ week and multi-week mode
MaxWeeks == 2

\* args.weeks is any int.
WeeksArgs == -1..MaxWeeks

\* A variant that leaves the week out of the column.
ColumnOfDay(wn, di) == di + 1

\* col_i = week_num * 7 + day_i, the cell being grid[s_i][1 + col_i].
ColumnIndex(wn, di) == wn * 7 + di + 1

\* {k: 0 for k in set(SLOTS)}
ZeroByPos == [k \in {SLOTS[s] : s \in DOMAIN SLOTS} |-> 0]

\* The same loop on filled_by_pos (filled) or empties_by_pos (~filled).
CountDay(by_pos, a, filled) ==
    [k \in DOMAIN by_pos |->
        by_pos[k] + Cardinality({s \in DOMAIN SLOTS :
                                    SLOTS[s] = k /\ ((s \in DOMAIN a) = filled)})]

\* A variant that divides by the days of one week.
PctOfWeek(filled, total) == [num |-> filled * 100, den |-> 7]

\* pct = (filled / total * 100) if total > 0 else 0, as the fraction
\* num / den.
Pct(filled, total) ==
    IF total > 0 THEN [num |-> filled * 100, den |-> total]
    ELSE [num |-> 0, den |-> 1]

\* filled = sum(1 for cell in cells if cell == "X")
FilledCells(cells) == Cardinality({c \in DOMAIN cells : cells[c] = "X"})

\* ------------------------------------------------- sort_slots_by_efficiency
\* for pos in ["C", "LW", "RW", "D", "G"]
GroupOrder == <<"C", "LW", "RW", "D", "G">>

\* pct1 > pct2 of two fractions num / den with den > 0.
PctGreater(pct1, pct2) == pct1.num * pct2.den > pct2.num * pct1.den

\* A variant that sorts a group by pct ascending.
InsertAscending(sorted, e) ==
    LET below == {i \in 1..Len(sorted) : PctGreater(sorted[i].pct, e.pct)}
        at == IF below = {} THEN Len(sorted) + 1
              ELSE CHOOSE i \in below : \A j \in below : i <= j
    IN  SubSeq(sorted, 1, at - 1) \o <<e>> \o SubSeq(sorted, at, Len(sorted))

\* The place of e in a list sorted by pct descending: behind every entry
\* whose pct is not smaller, as the stable sort with reverse=True puts it.
InsertDescending(sorted, e) ==
    LET below == {i \in 1..Len(sorted) : PctGreater(e.pct, sorted[i].pct)}
        at == IF below = {} THEN Len(sorted) + 1
              ELSE CHOOSE i \in below : \A j \in below : i <= j
    IN  SubSeq(sorted, 1, at - 1) \o <<e>> \o SubSeq(sorted, at, Len(sorted))

\* sorted(pos_groups[pos], key=lambda x: x[1], reverse=True)
RECURSIVE SortedGroup(_, _)
SortedGroup(group, n) ==
    IF n = 0 THEN <<>>
    ELSE InsertDescending(SortedGroup(group, n - 1), group[n])

\* sorted_indices after the first n positions of the `for pos in` loop.
RECURSIVE ExtendGroups(_, _)
ExtendGroups(slot_data, n) ==
    IF n = 0 THEN <<>>
    ELSE LET \* pos_groups[pos]: the entries of the slots labelled pos,
             \* in index order.
             OfPos(e) == e.slot = GroupOrder[n]
             group == SelectSeq(slot_data, OfPos)
             sorted_group == SortedGroup(group, Len(group))
         IN  ExtendGroups(slot_data, n - 1)
             \o [i \in DOMAIN sorted_group |-> sorted_group[i].s_i]

sort_slots_by_efficiency(sl, g, days) ==
    LET \* slot_data: for each s_i its slot and pct.
        slot_data == [s \in DOMAIN sl |->
                         [s_i |-> s, slot |-> sl[s],
                          pct |-> Pct(FilledCells(g[s]), days)]]
    IN  ExtendGroups(slot_data, Len(GroupOrder))

InitWeek ==
    LET
        \* The rosters of the week-mode runs followed here.
        WeekRosters ==
            {<<>>,
             <<Player("Aho", "NJ", {"C"}), Player("Kane", "NJD ", {"C", "LW"})>>,
             <<Player("Aho", "NJ", {"C"}), Player("Aho", "Col", {"C"}),
               Player("Kane", "Col", {"LW"})>>}
    IN
        LET
            \* args.date or today: a Wednesday to the Tuesday after it.
            RunDates == 3..9
        IN
            /\ ModeIdle
            /\ players \in WeekRosters
            /\ MatrixIdle
            /\ slots = <<>>
            /\ active_players = <<>>
            /\ assignment = <<>>
            /\ pc = "ready"
            /\ StatsIdle
            /\ idle_by_pos = <<>>
            /\ weeks \in WeeksArgs
            /\ run_date \in RunDates
            /\ week_num = 0
            /\ day_i = 0
            /\ grid = <<>>
            /\ filled_by_pos = <<>>
            /\ empties_by_pos = <<>>
            /\ initial_week_start = 0
            /\ pct_by_slot = <<>>
            /\ days_log = <<>>
            /\ wpc = "start"

\* initial_week_start = week_start_monday(...), the empty grid and the
\* zeroed counters.
StartWeekMode ==
    LET
        \* grid = [[slot] + [""] * total_days for slot in SLOTS]
        EmptyGrid(days) == [s \in DOMAIN SLOTS |-> [c \in 1..days |-> ""]]
    IN
        /\ wpc = "start"
        /\ initial_week_start' = week_start_monday(run_date)
        /\ grid' = EmptyGrid(weeks * 7)
        /\ filled_by_pos' = ZeroByPos
        /\ empties_by_pos' = ZeroByPos
        /\ wpc' = "loop"
        /\ UNCHANGED <<solver_vars, matrix_vars, stats_vars, idle_by_pos, weeks,
                       week_num, day_i, run_date, pct_by_slot, days_log, mode_vars>>

\* One pass of `for week_num in range(args.weeks)` up to the day loop:
\* p_games = build_player_game_matrix(players, week_start). An exception
\* ends the run.
WeekOfLoop ==
    /\ wpc = "loop"
    /\ week_num < weeks
    /\ week_start' = initial_week_start + 7 * week_num
    /\ \E o \in build_player_game_matrix(players, week_start', State) :
        /\ matrix' = o.result
        /\ mpc' = IF o.raised THEN "week_raised" ELSE "week"
        /\ wpc' = IF o.raised THEN "raised" ELSE "days"
        /\ SetState(o.st)
    /\ UNCHANGED <<solver_vars, players, target_date, calls, fetch_vars,
                   stats_vars, idle_by_pos, weeks, week_num, day_i, grid,
                   filled_by_pos, empties_by_pos, run_date,
                   initial_week_start, pct_by_slot, days_log, mode_vars>>

\* One pass of `for day_i, day_date in enumerate(week_days)`.
DayOfLoop ==
    LET
        \* The `for s_i, slot in enumerate(SLOTS)` loop on the grid.
        MarkDay(g, a, col) ==
            [s \in DOMAIN g |-> [g[s] EXCEPT ![col] = IF s \in DOMAIN a THEN "X" ELSE ""]]
    IN
        /\ wpc = "days"
        /\ target_date' = week_start + day_i
        /\ active_players' = Active(players, matrix, target_date')
        /\ slots' = SLOTS
        /\ assignment' \in solve_daily_assignment(active_players', SLOTS)
        /\ pc' = "solved"
        /\ grid' = MarkDay(grid, assignment', ColumnIndex(week_num, day_i))
        /\ filled_by_pos' = CountDay(filled_by_pos, assignment', TRUE)
        /\ empties_by_pos' = CountDay(empties_by_pos, assignment', FALSE)
        /\ days_log' = Append(days_log, [date |-> target_date',
                                         active |-> active_players',
                                         assignment |-> assignment'])
        /\ IF day_i = 6
           THEN day_i' = 0 /\ week_num' = week_num + 1 /\ wpc' = "loop"
           ELSE day_i' = day_i + 1 /\ week_num' = week_num /\ wpc' = "days"
        /\ UNCHANGED <<nhl_schedule_cache, requests, first_request, players,
                       week_start, matrix, mpc, calls, fetch_vars, stats_vars,
                       idle_by_pos, weeks, run_date, initial_week_start,
                       pct_by_slot, mode_vars>>

\* The rows of the report: filled and pct of every slot index.
Report ==
    /\ wpc = "loop"
    /\ ~(week_num < weeks)
    /\ pct_by_slot' = [s \in DOMAIN grid |-> Pct(FilledCells(grid[s]), weeks * 7)]
    /\ wpc' = "reported"
    /\ total_days' = weeks * 7
    /\ sorted_indices' = {sort_slots_by_efficiency(SLOTS, grid, weeks * 7)}
    /\ UNCHANGED <<auth_vars, solver_vars, matrix_vars, stats_vars, idle_by_pos, weeks,
                   week_num, day_i, grid, filled_by_pos, empties_by_pos,
                   run_date, initial_week_start, days_log, recommend_vars, args_vars,
                   page_vars>>

NextWeek == StartWeekMode \/ WeekOfLoop \/ DayOfLoop \/ Report

SpecWeek == InitWeek /\ [][NextWeek]_vars

\* ------------------------------------------------------ --recommend-add mode
MaxAvailable == 2

\* A record of the list fetch_available_players returns: overall_rank is
\* written under its key for every free agent, as {} for None when the
\* provider gave no rank.
FreeAgent(n, t, ps, rank, fpts) ==
    [name |-> n, team |-> t, pos |-> ps, overall_rank |-> rank,
     fantasy_points_total |-> fpts]

\* The sums `total_filled += len(assignment)` can reach over the first n
\* days of the week.
RECURSIVE TotalFilled(_, _, _, _)
TotalFilled(ps, p_games, ws, n) ==
    IF n = 0 THEN {0}
    ELSE {t + Size(a) :
            t \in TotalFilled(ps, p_games, ws, n - 1),
            a \in solve_daily_assignment(Active(ps, p_games, ws + n - 1), SLOTS)}

RankOf(r) == CHOOSE n \in r.overall_rank : TRUE

\* The stable insertion of r into the sorted list recs.
InsertByKey(recs, r) ==
    LET
        \* key(r1) < key(r2) for two records that can be ordered.
        KeyBefore(r1, r2) ==
            \/ r1.eff_gain > r2.eff_gain
            \/ /\ r1.eff_gain = r2.eff_gain
               /\ r1.overall_rank # r2.overall_rank
               /\ RankOf(r1) < RankOf(r2)
            \/ /\ r1.eff_gain = r2.eff_gain
               /\ r1.overall_rank = r2.overall_rank
               /\ r1.fpts > r2.fpts
    IN
        LET after == {i \in 1..Len(recs) : KeyBefore(r, recs[i])}
            at == IF after = {} THEN Len(recs) + 1
                  ELSE CHOOSE i \in after : \A j \in after : i <= j
        IN  SubSeq(recs, 1, at - 1) \o <<r>> \o SubSeq(recs, at, Len(recs))

RECURSIVE SortedByKey(_, _)
SortedByKey(recs, n) ==
    IF n = 0 THEN <<>> ELSE InsertByKey(SortedByKey(recs, n - 1), recs[n])

\* recommendations.sort(key=...): a comparison sort has to compare the
\* two records it puts next to each other, so the TypeError of a None
\* against an int is raised whenever two records of one eff_gain differ
\* that way; otherwise the list is sorted, equal keys keeping their order.
SortRecommendations(recs) ==
    LET
        \* The sort key (-eff_gain, overall_rank, -fpts) of two records cannot be
        \* ordered when the tuples first differ at a None and an int.
        Unorderable(r1, r2) ==
            /\ r1.eff_gain = r2.eff_gain
            /\ r1.overall_rank # r2.overall_rank
            /\ (r1.overall_rank = {} \/ r2.overall_rank = {})
    IN
        IF \E i, j \in 1..Len(recs) : Unorderable(recs[i], recs[j])
        THEN [raised |-> TRUE, recs |-> recs]
        ELSE [raised |-> FALSE, recs |-> SortedByKey(recs, Len(recs))]

\* The mode is entered with the roster and a non-empty free-agent list
\* fetched; nothing is cached in memory yet.
InitRecommend ==
    LET
        FreeAgentPool ==
            {FreeAgent("Roy", "Col", {"LW"}, {}, 0),
             FreeAgent("Hall", "NJ", {"C"}, {5}, 10),
             FreeAgent("Toews", "Col", {"C", "LW"}, {2}, 10)}
    IN
        LET
            RecommendRosters ==
                {<<Player("Kane", "NJD ", {"C"}), Player("Aho", "NJ", {"C"})>>}
        IN
            LET
                \* args.recommend_add as typed: the roster spelling, another case, and a
                \* name that is not on the roster.
                DropNames == {"Kane", "kane", "Roy"}
            IN
                /\ players \in RecommendRosters
                /\ available_players \in SeqsUpTo(FreeAgentPool, MaxAvailable) \ {<<>>}
                /\ drop_player_name \in DropNames
                /\ drop_player = {}
                /\ current_total_filled = 0
                /\ sim_i = 0
                /\ modified_players = <<>>
                /\ recommendations = <<>>
                /\ xpc = "start"
                /\ AuthIdle
                /\ ArgsIdle
                /\ SortIdle
                /\ PageIdle
                /\ MatrixIdle
                /\ slots = <<>>
                /\ active_players = <<>>
                /\ assignment = <<>>
                /\ pc = "ready"
                /\ force = FALSE
                /\ now = RunStart
                /\ nhl_stats_cache = {}
                /\ cache_timestamp = {}
                /\ nhl_cache_file = {}
                /\ yahoo_fa_cache_file = {}
                /\ stats_map = {}
                /\ rpc = "idle"
                /\ ReportIdle

\* The search for the drop player; `return 2` when it finds nobody.
FindDrop ==
    LET
        \* The `for p in players` search: the first p with p.name.lower() ==
        \* drop_player_name.lower(), or None.
        FindDropPlayer(ps, name) ==
            LET hits == {i \in 1..Len(ps) : Lower(ps[i].name) = Lower(name)}
            IN  IF hits = {} THEN {}
                ELSE {ps[CHOOSE i \in hits : \A j \in hits : i <= j]}
    IN
        /\ xpc = "start"
        /\ drop_player' = FindDropPlayer(players, drop_player_name)
        /\ xpc' = IF drop_player' = {} THEN "exit2" ELSE "found"
        /\ UNCHANGED <<auth_vars, args_vars, sort_vars, page_vars, solver_vars, matrix_vars, stats_vars, report_vars,
                       drop_player_name, current_total_filled, sim_i,
                       modified_players, recommendations>>

\* The current roster: its week matrix and the seven solver calls, then
\* the stats prefetch, the matrix of [drop_player] and its games played.
\* An exception of a matrix call ends the run.
SolveCurrent ==
    /\ xpc = "found"
    /\ \E d \in Dates :
        /\ week_start' = week_start_monday(d)
        /\ \E o \in build_player_game_matrix(players, week_start', State) :
            IF o.raised
            THEN /\ xpc' = "raised"
                 /\ matrix' = o.result
                 /\ SetState(o.st)
                 /\ UNCHANGED <<current_total_filled, stats_vars>>
            ELSE /\ current_total_filled' \in
                        TotalFilled(players, o.result, week_start', 7)
                 /\ \E s1 \in fetch_season_stats(force, StatsState, now) :
                    \E m \in build_player_game_matrix(
                                <<TheFile(drop_player)>>, week_start', o.st) :
                    \E s2 \in fetch_season_stats(FALSE, s1.st, now) :
                        /\ xpc' = IF m.raised THEN "raised" ELSE "simulate"
                        /\ matrix' = m.result
                        /\ SetState(m.st)
                        /\ stats_map' = IF m.raised THEN s1.ret ELSE s2.ret
                        /\ SetStatsState(IF m.raised THEN s1.st ELSE s2.st)
                        /\ UNCHANGED <<force, now, yahoo_fa_cache_file,
                                       available_players, rpc>>
    /\ mpc' = IF xpc' = "raised" THEN "week_raised" ELSE "week"
    /\ UNCHANGED <<auth_vars, args_vars, sort_vars, page_vars, solver_vars, players, target_date, calls, fetch_vars,
                   report_vars, drop_player_name, drop_player, sim_i,
                   modified_players, recommendations>>

\* One pass of `for i, avail_player_data in enumerate(available_players)`:
\* the modified roster, its matrix and solver calls, the rank, the games
\* played, and the record appended (the fields that enter the sort key).
Simulate ==
    LET
        \* modified_players: [p for p in players if p.name !=
        \* drop_player_name], with avail_player appended.
        ModifiedRoster(ps, name, avail_player) ==
            LET Kept(p) == p.name # name
            IN  Append(SelectSeq(ps, Kept), avail_player)
    IN
        /\ xpc = "simulate"
        /\ sim_i < Len(available_players)
        /\ LET avail_player_data == available_players[sim_i + 1]
               avail_player == Player(avail_player_data.name,
                                      avail_player_data.team,
                                      avail_player_data.pos)
           IN  /\ modified_players' =
                    ModifiedRoster(players, drop_player_name, avail_player)
               /\ \E o \in build_player_game_matrix(modified_players',
                                                    week_start, State) :
                    /\ matrix' = o.result
                    /\ SetState(o.st)
                    /\ IF o.raised
                       THEN /\ xpc' = "raised"
                            /\ mpc' = "week_raised"
                            /\ UNCHANGED <<recommendations, sim_i, stats_vars>>
                       ELSE /\ xpc' = "simulate"
                            /\ mpc' = "week"
                            /\ sim_i' = sim_i + 1
                            /\ \E filled \in TotalFilled(modified_players',
                                                         o.result, week_start, 7) :
                                recommendations' = Append(recommendations,
                                    [player |-> avail_player,
                                     eff_gain |-> filled - current_total_filled,
                                     overall_rank |->
                                        Get(avail_player_data, "overall_rank",
                                            {sim_i + 1}),
                                     fpts |-> Get(avail_player_data,
                                                  "fantasy_points_total", 0)])
                            /\ \E s \in fetch_season_stats(FALSE, StatsState, now) :
                                /\ stats_map' = s.ret
                                /\ SetStatsState(s.st)
                                /\ UNCHANGED <<force, now, yahoo_fa_cache_file,
                                               available_players, rpc>>
        /\ UNCHANGED <<auth_vars, args_vars, sort_vars, page_vars, solver_vars, players, week_start, target_date, calls,
                       fetch_vars, report_vars, drop_player_name, drop_player,
                       current_total_filled>>

\* recommendations.sort(...) once every free agent is simulated.
SortSimulated ==
    /\ xpc = "simulate"
    /\ sim_i = Len(available_players)
    /\ recommendations' = SortRecommendations(recommendations).recs
    /\ xpc' = IF SortRecommendations(recommendations).raised
              THEN "sort_raised" ELSE "sorted"
    /\ UNCHANGED <<auth_vars, args_vars, sort_vars, page_vars, solver_vars, matrix_vars, stats_vars, report_vars,
                   drop_player_name, drop_player, current_total_filled,
                   sim_i, modified_players>>

NextRecommend == FindDrop \/ SolveCurrent \/ Simulate \/ SortSimulated

SpecRecommend == InitRecommend /\ [][NextRecommend]_vars

\* ------------------------------------------------------- the command line
\* An optional string argument is {} for None, or {s}; --player-swap is {}
\* or the list of its two strings.
Truthy(opt) == opt # {} /\ opt # {""}

\* What validation leaves behind: the code returned, if it returned, and
\* the namespace.
Validated(code, a) == [code |-> code, args |-> a]

\* A variant of the --recommend-add block without its --compare-team
\* check.
RecommendAddBlockLocalOnly(v) ==
    IF v.code # {} \/ ~Truthy(v.args.recommend_add) THEN v
    ELSE IF v.args.local \/ v.args.day THEN Validated({2}, v.args)
    ELSE Validated({}, [v.args EXCEPT !.weeks = 1])

\* if args.recommend_add: ...
RecommendAddBlock(v) ==
    IF v.code # {} \/ ~Truthy(v.args.recommend_add) THEN v
    ELSE IF v.args.local \/ v.args.day \/ Truthy(v.args.compare_team)
    THEN Validated({2}, v.args)
    ELSE Validated({}, [v.args EXCEPT !.weeks = 1])

\* The four validation blocks of main, in their order.
ValidateModes(a) ==
    LET
        \* if args.available_fas: ..., the date parsed last.
        AvailableFasBlock(v) ==
            IF v.code # {} \/ ~Truthy(v.args.available_fas) THEN v
            ELSE IF \/ v.args.local
                    \/ Truthy(v.args.recommend_add)
                    \/ Truthy(v.args.compare_team)
                    \/ v.args.player_swap # {}
                    \/ \E s \in v.args.available_fas : ~IsIsoDate(s)
            THEN Validated({2}, v.args)
            ELSE v
    IN
        LET
            \* if args.player_swap: ...
            PlayerSwapBlock(v) ==
                IF v.code # {} \/ v.args.player_swap = {} THEN v
                ELSE IF v.args.local \/ v.args.day \/ Truthy(v.args.recommend_add)
                THEN Validated({2}, v.args)
                ELSE Validated({}, [v.args EXCEPT !.weeks = 1])
        IN
            LET
                \* if args.compare_team: ...
                CompareTeamBlock(v) ==
                    IF v.code # {} \/ ~Truthy(v.args.compare_team) THEN v
                    ELSE IF v.args.local \/ v.args.day \/ v.args.player_swap # {}
                    THEN Validated({2}, v.args)
                    ELSE Validated({}, [v.args EXCEPT !.weeks = 1])
            IN
                AvailableFasBlock(RecommendAddBlock(PlayerSwapBlock(
                    CompareTeamBlock(Validated({}, a)))))

OptionValues == {{}, {""}, {"12"}}

InitArgs ==
    LET
        \* The namespaces parse_args() can return.
        Namespaces ==
            [compare_team : OptionValues,
             player_swap : {{}, {<<"", "">>}, {<<"7", "9">>}},
             recommend_add : OptionValues,
             available_fas : {{}, {""}, {"2024-01-08"}, {"TBD"}},
             local : BOOLEAN,
             day : BOOLEAN,
             sync : BOOLEAN,
             weeks : WeeksArgs]
    IN
        /\ args \in Namespaces
        /\ exit_code = {}
        /\ apc = "parsed"
        /\ roster_fetches = 0
        /\ weeks_analysed = {}
        /\ AuthIdle
        /\ RecommendIdle
        /\ SortIdle
        /\ PageIdle
        /\ players = <<>>
        /\ MatrixIdle
        /\ slots = <<>>
        /\ active_players = <<>>
        /\ assignment = <<>>
        /\ pc = "ready"
        /\ StatsIdle
        /\ ReportIdle

\* The validation of the modes: main returns 2, or goes on with args.weeks
\* forced to 1 by an accepted mode.
Validate ==
    /\ apc = "parsed"
    /\ args' = ValidateModes(args).args
    /\ exit_code' = ValidateModes(args).code
    /\ apc' = IF exit_code' = {} THEN "validated" ELSE "returned"
    /\ UNCHANGED <<auth_vars, roster_fetches, weeks_analysed, recommend_vars, sort_vars, page_vars,
                   solver_vars, matrix_vars, stats_vars, report_vars>>

\* --sync, or the roster of the run: from Yahoo, or from the file with
\* --local or after Yahoo failed; any of it can fail and end the run.
LoadRoster ==
    /\ apc = "validated"
    /\ roster_fetches' = roster_fetches + 1
    /\ \E ok \in BOOLEAN :
        /\ exit_code' = IF ~ok THEN {2} ELSE IF args.sync THEN {0} ELSE {}
        /\ apc' = IF exit_code' = {} THEN "roster" ELSE "returned"
    /\ UNCHANGED <<auth_vars, args, weeks_analysed, recommend_vars, sort_vars, page_vars, solver_vars,
                   matrix_vars, stats_vars, report_vars>>

\* The analysis main goes into: single-day mode, a seven-day comparison,
\* swap or recommendation when its data was fetched, the single date of
\* --available-fas, or week mode over range(args.weeks).
Analyse ==
    /\ apc = "roster"
    /\ \E has_data \in BOOLEAN :
        weeks_analysed' =
            IF args.day THEN {0}
            ELSE IF has_data /\ (Truthy(args.compare_team)
                                 \/ args.player_swap # {}
                                 \/ Truthy(args.recommend_add)) THEN {1}
            ELSE IF Truthy(args.available_fas) THEN {0}
            ELSE {IF args.weeks > 0 THEN args.weeks ELSE 0}
    /\ apc' = "analysed"
    /\ UNCHANGED <<auth_vars, args, exit_code, roster_fetches, recommend_vars, sort_vars, page_vars,
                   solver_vars, matrix_vars, stats_vars, report_vars>>

NextArgs == Validate \/ LoadRoster \/ Analyse

SpecArgs == InitArgs /\ [][NextArgs]_vars

\* ------------------------------------------- sort_slots_by_efficiency, called
MaxDays == 2

\* A row of n cells of which the first k are "X".
GridRow(n, k) == [c \in 1..n |-> IF c <= k THEN "X" ELSE ""]

\* The calls: a slot list, a grid of its rows and total_days, the number
\* of day columns; week mode with a negative args.weeks passes its
\* negative total_days with a grid of no columns.
InitSort ==
    LET
        \* The labels of a league's active slots: fetch_league_settings keeps
        \* every position type but BN, IR, IR+, Util and NA, so a league with
        \* forward slots has the label F; a roster file can name any label.
        SlotLabels == {"C", "LW", "D", "F"}
    IN
        LET
            \* The grids of a table of n day columns.
            Grids(sl, n) == [DOMAIN sl -> {GridRow(n, k) : k \in 0..n}]
        IN
            /\ slots \in SeqsUpTo(SlotLabels, MaxSlots)
            /\ total_days \in {-7} \cup 0..MaxDays
            /\ grid \in Grids(slots, IF total_days > 0 THEN total_days ELSE 0)
            /\ sorted_indices = {}
            /\ AuthIdle
            /\ RecommendIdle
            /\ ArgsIdle
            /\ PageIdle
            /\ players = <<>>
            /\ MatrixIdle
            /\ active_players = <<>>
            /\ assignment = <<>>
            /\ pc = "ready"
            /\ StatsIdle
            /\ idle_by_pos = <<>>
            /\ weeks = 0
            /\ week_num = 0
            /\ day_i = 0
            /\ filled_by_pos = <<>>
            /\ empties_by_pos = <<>>
            /\ wpc = "idle"
            /\ run_date = 0
            /\ initial_week_start = 0
            /\ pct_by_slot = <<>>
            /\ days_log = <<>>

\* sorted_indices = sort_slots_by_efficiency(SLOTS, grid, total_days)
SortSlots ==
    /\ sorted_indices = {}
    /\ sorted_indices' = {sort_slots_by_efficiency(slots, grid, total_days)}
    /\ UNCHANGED <<auth_vars, total_days, recommend_vars, args_vars, page_vars, solver_vars,
                   matrix_vars, stats_vars, report_vars>>

NextSort == SortSlots

SpecSort == InitSort /\ [][NextSort]_vars

\* ------------------------------------- fetch_season_stats, request by request
\* limit = 100
limit == 100

HalfPage == limit \div 2

\* A variant of the loop that asks for the same page again.
SamePage(s) == s

\* start += limit
NextStart(s) == s + limit

\* A variant that stores what was fetched before a request failed.
StorePartial(st, t, map, now_t) ==
    [mem |-> {[at |-> t, ids |-> map]}, ts |-> {t}, disk |-> st.disk]

\* except Exception: return {} -- the caches of the module and the file
\* stay as they are.
OnException(st, t, map, now_t) == st

InitPages ==
    LET
        \* The file an earlier run may have left: none, a stale one, a fresh one,
        \* a fresh one that holds no stats.
        PageFiles ==
            {{},
             {[mtime |-> 0, data |-> {[at |-> 0, ids |-> {}]}]},
             {[mtime |-> RunStart - HalfTtl,
               data |-> {[at |-> RunStart - HalfTtl, ids |-> {}]}]},
             {[mtime |-> RunStart - HalfTtl, data |-> {}]}}
    IN
        LET
            \* The stats provider of a run: the skater records it holds, numbered from
            \* 1 (none, two pages, two pages and a half), the `total` its responses
            \* carry (none, the number of records, or a page more than there are) and
            \* the records it puts on a page (the 100 asked for, or half of that).
            Providers ==
                UNION {[records : {n}, total : {{}, {n}, {n + limit}},
                        page : {limit, HalfPage}]
                       : n \in {0, limit + limit, limit + limit + HalfPage}}
        IN
            /\ provider \in Providers
            /\ call_force = FALSE
            /\ current_time = 0
            /\ before_call = <<>>
            /\ start = 0
            /\ total_fetched = 0
            /\ page_map = {}
            /\ page_log = <<>>
            /\ ppc = "ready"
            /\ AuthIdle
            /\ RecommendIdle
            /\ ArgsIdle
            /\ SortIdle
            /\ players = <<>>
            /\ MatrixIdle
            /\ slots = <<>>
            /\ active_players = <<>>
            /\ assignment = <<>>
            /\ pc = "ready"
            /\ force = FALSE
            /\ now = RunStart
            /\ nhl_stats_cache = {}
            /\ cache_timestamp = {}
            /\ nhl_cache_file \in PageFiles
            /\ yahoo_fa_cache_file = {}
            /\ stats_map = {}
            /\ available_players = {}
            /\ rpc = "stats"
            /\ ReportIdle

\* fetch_season_stats(force_refresh=...) up to its first request: the
\* in-memory cache, the disk cache, or the start of the pagination loop.
CallFetchSeasonStats ==
    /\ ppc \in {"ready", "returned"}
    /\ calls < MaxCalls
    /\ calls' = calls + 1
    /\ call_force' \in BOOLEAN
    /\ current_time' = now
    /\ before_call' = StatsState
    /\ start' = 0
    /\ total_fetched' = 0
    /\ page_map' = {}
    /\ page_log' = <<>>
    /\ IF ~call_force' /\ MemoryFresh(StatsState, now)
       THEN /\ stats_map' = nhl_stats_cache
            /\ ppc' = "returned"
            /\ UNCHANGED <<nhl_stats_cache, cache_timestamp>>
       ELSE IF ~call_force' /\ load_cache_from_disk(nhl_cache_file, now) # {}
       THEN /\ nhl_stats_cache' = load_cache_from_disk(nhl_cache_file, now)
            /\ cache_timestamp' = {now}
            /\ stats_map' = nhl_stats_cache'
            /\ ppc' = "returned"
       ELSE /\ ppc' = "loop"
            /\ UNCHANGED <<nhl_stats_cache, cache_timestamp, stats_map>>
    /\ UNCHANGED <<auth_vars, provider, nhl_cache_file, force, now, yahoo_fa_cache_file,
                   available_players, rpc, recommend_vars, args_vars,
                   sort_vars, solver_vars, nhl_schedule_cache, requests,
                   first_request, players, week_start, target_date, matrix,
                   mpc, fetch_vars, report_vars>>

\* One pass of `while True`: the request, then the exception, the break
\* on an empty page, or the page stored and counted; after the loop the
\* caches are written and stats_map returned.
PageRequest ==
    LET
        \* After the loop: _nhl_stats_cache = stats_map, _cache_timestamp =
        \* current_time, and _save_cache_to_disk, whose failure is swallowed.
        StoreFetched(st, t, map, now_t) ==
            LET new == {[at |-> t, ids |-> map]}
            IN  {[mem |-> new, ts |-> {t}, disk |-> d]
                 : d \in {st.disk, {[mtime |-> now_t, data |-> new]}}}
    IN
        LET
            \* What requests.get can bring back for the page at offset s: a failure
            \* (connection, HTTP status, JSON), or len(data["data"]) = n records, n
            \* being the provider's page or what is left from s.
            PageResponses(pr, s) ==
                LET left == IF pr.records > s THEN pr.records - s ELSE 0
                IN  {[status |-> "error", n |-> 0],
                     [status |-> "ok", n |-> IF left > pr.page THEN pr.page ELSE left]}
        IN
            LET
                \* total_available = data.get("total", 0)
                TotalAvailable(pr) == IF pr.total = {} THEN 0 ELSE TheFile(pr.total)
            IN
                LET
                    \* The records of a page of n records at offset s.
                    PageRecords(s, n) == (s + 1)..(s + n)
                IN
                    /\ ppc = "loop"
                    /\ \E r \in PageResponses(provider, start) :
                        /\ page_log' = Append(page_log, [start |-> start, status |-> r.status,
                                                         n |-> r.n])
                        /\ IF r.status = "error"
                           THEN /\ stats_map' = {}
                                /\ ppc' = "returned"
                                /\ SetStatsState(OnException(StatsState, current_time,
                                                             page_map, now))
                                /\ UNCHANGED <<start, total_fetched, page_map>>
                           ELSE /\ page_map' = page_map \cup PageRecords(start, r.n)
                                /\ total_fetched' = total_fetched + r.n
                                /\ IF r.n = 0 \/ total_fetched' >= TotalAvailable(provider)
                                   THEN /\ \E st \in StoreFetched(StatsState, current_time,
                                                                  page_map', now) :
                                            /\ SetStatsState(st)
                                            /\ stats_map' = st.mem
                                        /\ ppc' = "returned"
                                        /\ start' = start
                                   ELSE /\ start' = NextStart(start)
                                        /\ ppc' = "loop"
                                        /\ UNCHANGED <<nhl_stats_cache, cache_timestamp,
                                                       nhl_cache_file, stats_map>>
                    /\ UNCHANGED <<auth_vars, provider, call_force, current_time, before_call, force,
                                   now, yahoo_fa_cache_file, available_players, rpc,
                                   recommend_vars, args_vars, sort_vars, solver_vars,
                                   matrix_vars, report_vars>>

NextPages == Tick \/ CallFetchSeasonStats \/ PageRequest

SpecPages == InitPages /\ [][NextPages]_vars

\* The loop is left to run: a request comes back, or times out after 15 s.
SpecPagesFair == SpecPages /\ WF_vars(PageRequest)

\* ------------------------------------------------ YahooClient.authorize
\* yahoo_client.py.  Time is counted in seconds; the calls of one client
\* are followed one at a time, each network call a step of its own.

\* The buffer of _is_token_valid, in seconds.
Buffer == 60

HalfBuffer == Buffer \div 2

TokenValidUntilExpiry(atok, exp, t) ==
    /\ Truthy(atok)
    /\ exp # {} /\ TheFile(exp) # 0
    /\ t < TheFile(exp)

\* _is_token_valid(): an access token and an expiry, and time.time()
\* before the expiry less the buffer.
is_token_valid(atok, exp, t) ==
    /\ Truthy(atok)
    /\ exp # {} /\ TheFile(exp) # 0
    /\ t < TheFile(exp) - Buffer

\* authorize() up to its first network call: where it goes from the
\* configuration, the tokens and the time.
authorize(cfg, atok, rtok, exp, t) ==
    IF ~cfg THEN "raised"
    ELSE IF is_token_valid(atok, exp, t) THEN "returned"
    ELSE IF Truthy(rtok) THEN "refresh"
    ELSE "browser"

\* The token checks of the call, as authorize() and _api_request() make
\* them: config.validate() raises before the check of authorize().
ChecksOf(api, cfg, atok, exp, t) ==
    (IF api THEN <<"check">> ELSE <<>>)
    \o (IF (~api \/ ~is_token_valid(atok, exp, t)) /\ cfg
        THEN <<"check">> ELSE <<>>)

\* What the token endpoint answers: tokens, an HTTP error
\* (requests.RequestException), or a body without the tokens.
TokenResponses ==
    LET
        \* expires_in of a token response.
        ExpiresIn == {Buffer, Buffer + Buffer}
    IN
        {[kind |-> "ok", expires_in |-> e] : e \in ExpiresIn}
        \cup {[kind |-> k, expires_in |-> 0] : k \in {"http_error", "malformed"}}

\* What a call that holds a token does next: authorize() returns,
\* _api_request() goes on to its request.
Authorized(api) == IF api THEN "send" ELSE "returned"

Resting == {"ready", "returned", "raised"}

InitAuth ==
    LET
        \* The tokens of the file .yahoo_tokens.json as __init__ loads them.
        StoredTokens ==
            {[access |-> a, refresh |-> r, expiry |-> e] :
                a \in {{}, {"a0"}}, r \in {{}, {"r0"}},
                e \in {{}, {Buffer}, {Buffer + HalfBuffer}, {Buffer + Buffer}}}
    IN
        /\ configured \in BOOLEAN
        /\ \E tk \in StoredTokens :
              /\ access_token = tk.access
              /\ refresh_token = tk.refresh
              /\ token_expiry = tk.expiry
        /\ wall = 0
        /\ via_api = FALSE
        /\ at_call = {}
        /\ refresh_result = "none"
        /\ trace = <<>>
        /\ upc = "ready"
        /\ RecommendIdle
        /\ ArgsIdle
        /\ SortIdle
        /\ PageIdle
        /\ players = <<>>
        /\ MatrixIdle
        /\ slots = <<>>
        /\ active_players = <<>>
        /\ assignment = <<>>
        /\ pc = "ready"
        /\ StatsIdle
        /\ ReportIdle

\* Time passes.
Elapse ==
    /\ wall < MaxTicks * HalfBuffer
    /\ wall' = wall + HalfBuffer
    /\ UNCHANGED <<configured, access_token, refresh_token, token_expiry,
                   via_api, at_call, refresh_result, trace, upc>>
    /\ UNCHANGED <<recommend_vars, args_vars, sort_vars, page_vars,
                   solver_vars, matrix_vars, stats_vars, report_vars>>

\* client.authorize(), up to its return or its first network call.
CallAuthorize ==
    /\ upc \in Resting
    /\ via_api' = FALSE
    /\ at_call' = {[access |-> access_token, refresh |-> refresh_token,
                    expiry |-> token_expiry, time |-> wall]}
    /\ refresh_result' = "none"
    /\ trace' = ChecksOf(FALSE, configured, access_token, token_expiry, wall)
    /\ upc' = authorize(configured, access_token, refresh_token,
                        token_expiry, wall)
    /\ UNCHANGED <<configured, access_token, refresh_token, token_expiry, wall>>
    /\ UNCHANGED <<recommend_vars, args_vars, sort_vars, page_vars,
                   solver_vars, matrix_vars, stats_vars, report_vars>>

\* client._api_request(), up to its first network call.
CallApiRequest ==
    LET
        \* _api_request() up to its first network call.
        api_request(cfg, atok, rtok, exp, t) ==
            IF is_token_valid(atok, exp, t) THEN "send"
            ELSE authorize(cfg, atok, rtok, exp, t)
    IN
        /\ upc \in Resting
        /\ via_api' = TRUE
        /\ at_call' = IF is_token_valid(access_token, token_expiry, wall)
                      THEN {}
                      ELSE {[access |-> access_token, refresh |-> refresh_token,
                             expiry |-> token_expiry, time |-> wall]}
        /\ refresh_result' = "none"
        /\ trace' = ChecksOf(TRUE, configured, access_token, token_expiry, wall)
        /\ upc' = api_request(configured, access_token, refresh_token,
                              token_expiry, wall)
        /\ UNCHANGED <<configured, access_token, refresh_token, token_expiry, wall>>
        /\ UNCHANGED <<recommend_vars, args_vars, sort_vars, page_vars,
                       solver_vars, matrix_vars, stats_vars, report_vars>>

\* _refresh_access_token(): the post, and the tokens stored or the
\* failure reported; a body without the tokens raises KeyError.
RefreshAccessToken ==
    /\ upc = "refresh"
    /\ trace' = Append(trace, "refresh")
    /\ \E r \in TokenResponses :
          CASE r.kind = "ok" ->
                 /\ access_token' = {"a1"}
                 /\ refresh_token' = {"r1"}
                 /\ token_expiry' = {wall + r.expires_in}
                 /\ refresh_result' = "ok"
                 /\ upc' = Authorized(via_api)
            [] r.kind = "http_error" ->
                 /\ refresh_result' = "failed"
                 /\ upc' = "browser"
                 /\ UNCHANGED <<access_token, refresh_token, token_expiry>>
            [] r.kind = "malformed" ->
                 /\ refresh_result' = "raised"
                 /\ upc' = "raised"
                 /\ UNCHANGED <<access_token, refresh_token, token_expiry>>
    /\ UNCHANGED <<configured, wall, via_api, at_call>>
    /\ UNCHANGED <<recommend_vars, args_vars, sort_vars, page_vars,
                   solver_vars, matrix_vars, stats_vars, report_vars>>

\* The rest of authorize(): the certificate, the browser, the wait for the
\* callback and _exchange_code_for_token().
BrowserFlow ==
    LET
        \* How the browser flow ends: no certificate, no callback in five
        \* minutes, or a code and the answer to its exchange.
        BrowserOutcomes ==
            {[kind |-> k, expires_in |-> 0] : k \in {"no_cert", "timed_out"}}
            \cup {r \in TokenResponses : r.kind # "malformed"}
    IN
        /\ upc = "browser"
        /\ \E o \in BrowserOutcomes :
              CASE o.kind = "no_cert" ->
                     /\ trace' = trace
                     /\ upc' = "raised"
                     /\ UNCHANGED <<access_token, refresh_token, token_expiry>>
                [] o.kind = "timed_out" ->
                     /\ trace' = Append(trace, "browser")
                     /\ upc' = "raised"
                     /\ UNCHANGED <<access_token, refresh_token, token_expiry>>
                [] o.kind = "http_error" ->
                     /\ trace' = trace \o <<"browser", "exchange">>
                     /\ upc' = "raised"
                     /\ UNCHANGED <<access_token, refresh_token, token_expiry>>
                [] o.kind = "ok" ->
                     /\ trace' = trace \o <<"browser", "exchange">>
                     /\ access_token' = {"a1"}
                     /\ refresh_token' = {"r1"}
                     /\ token_expiry' = {wall + o.expires_in}
                     /\ upc' = Authorized(via_api)
        /\ UNCHANGED <<configured, wall, via_api, at_call, refresh_result>>
        /\ UNCHANGED <<recommend_vars, args_vars, sort_vars, page_vars,
                       solver_vars, matrix_vars, stats_vars, report_vars>>

\* The request of _api_request(), answered or raising.
SendRequest ==
    /\ upc = "send"
    /\ trace' = Append(trace, "request")
    /\ upc' \in {"returned", "raised"}
    /\ UNCHANGED <<configured, access_token, refresh_token, token_expiry,
                   wall, via_api, at_call, refresh_result>>
    /\ UNCHANGED <<recommend_vars, args_vars, sort_vars, page_vars,
                   solver_vars, matrix_vars, stats_vars, report_vars>>

NextAuth ==
    \/ Elapse
    \/ CallAuthorize
    \/ CallApiRequest
    \/ RefreshAccessToken
    \/ BrowserFlow
    \/ SendRequest

SpecAuth == InitAuth /\ [][NextAuth]_vars

\* ------------------------------------------------------------ properties
Returned == pc # "ready"

Eligible(s, p) == slots[s] \in active_players[p].pos

Injective(m) == \A s1, s2 \in DOMAIN m : s1 # s2 => m[s1] # m[s2]

\* Respecting label eligibility and injective on both sides.
IsMatching(m) ==
    /\ \A s \in DOMAIN m : Eligible(s, m[s])
    /\ Injective(m)

\* C1: the returned assignment has maximum cardinality: no injective,
\* eligibility-respecting map from slot indices to player indices (on any
\* set D of slot indices) has strictly more pairs.
C1_MaximumCardinality ==
    Returned =>
        \A D \in SUBSET (1..Len(slots)) :
            Cardinality(D) > Size(assignment) =>
                \A m \in [D -> 1..Len(active_players)] : ~IsMatching(m)

\* Slots [C, LW] with players B(C, LW), A(C): filling slot C with the first
\* eligible player leaves LW empty, yet the maximum is 2.
C1_Witness ==
    /\ Returned
    /\ slots = <<"C", "LW">>
    /\ active_players = <<SolverPlayer({"C", "LW"}), SolverPlayer({"C"})>>
    /\ Size(assignment) = 2

\* C2: every returned pair s -> p has s a valid slot index, p a valid
\* player index and slots[s] in active_players[p].pos.
C2_Feasible ==
    Returned =>
        \A s \in DOMAIN assignment :
            /\ s \in 1..Len(slots)
            /\ assignment[s] \in 1..Len(active_players)
            /\ Eligible(s, assignment[s])

C2_Witness ==
    /\ Returned
    /\ Size(assignment) = 2
    /\ \E s \in 1..Len(slots), p \in 1..Len(active_players) :
          s \notin DOMAIN assignment /\ ~Eligible(s, p)

\* C3: the returned mapping is injective on both sides: a slot index has
\* one player and no player index is the value of two slot indices, also
\* when several slots carry the same label.
C3_Injective ==
    Returned =>
        /\ assignment \in [DOMAIN assignment -> 1..Len(active_players)]
        /\ Injective(assignment)

\* Two slots with one label, both filled, and a third of that label that a
\* player already placed would be eligible for.
C3_Witness ==
    /\ Returned
    /\ slots = <<"C", "C", "C">>
    /\ Len(active_players) = 2
    /\ Size(assignment) = 2

\* C4: with an empty player list or an empty slot list the solver returns
\* the empty mapping.
C4_EmptyInput ==
    (Returned /\ (Len(active_players) = 0 \/ Len(slots) = 0)) => assignment = <<>>

C4_Witness ==
    /\ Returned
    /\ Len(active_players) = 0
    /\ Len(slots) = 2
    /\ assignment = <<>>

C4_WitnessNoSlots ==
    /\ Returned
    /\ Len(slots) = 0
    /\ Len(active_players) = 2
    /\ assignment = <<>>

NoEligiblePlayer(s) == \A p \in 1..Len(active_players) : ~Eligible(s, p)

\* C5: a slot whose label is in no active player's eligible positions is
\* never a key of the returned assignment (and the call still returns,
\* with the other slots assigned).
C5_InfeasibleSlotLabel ==
    Returned =>
        \A s \in 1..Len(slots) : NoEligiblePlayer(s) => s \notin DOMAIN assignment

C5_Witness ==
    /\ Returned
    /\ \E s \in 1..Len(slots) : NoEligiblePlayer(s)
    /\ Size(assignment) = 2

\* The step hands the solver the same slots and the player list with one
\* more player, of non-empty eligible positions, inserted.
PlayerAdded ==
    /\ Returned /\ pc' # "ready"
    /\ slots' = slots
    /\ \E i \in 1..(Len(active_players) + 1) :
          /\ Len(active_players') = Len(active_players) + 1
          /\ active_players'[i].pos # {}
          /\ active_players = RemoveAt(active_players', i)

\* C6: adding one player with a non-empty eligible-position set never
\* decreases the cardinality of the returned assignment.
C6_Monotone == [][PlayerAdded => Size(assignment') >= Size(assignment)]_vars

\* The third player arrives and all three are placed.
C6_Witness ==
    /\ pc = "added"
    /\ Len(active_players) = 3
    /\ \A p \in 1..Len(active_players) : active_players[p].pos # {}
    /\ Size(assignment) = 3

\* The step is a solver call on the very lists of the call before it.
SameInputs ==
    /\ Returned /\ pc' # "ready"
    /\ slots' = slots
    /\ active_players' = active_players

\* C7: two calls with identical player and slot lists return assignments
\* of identical cardinality, whatever calls came before.
C7_StableCardinality == [][SameInputs => Size(assignment') = Size(assignment)]_vars

\* A repeated call on an input with several optimal assignments, after
\* other calls were made.
C7_Witness ==
    /\ pc = "resolved"
    /\ Cardinality(solve_daily_assignment(active_players, slots)) > 1
    /\ Size(assignment) = 2

\* The NHL team a roster team code stands for.
ExpectedTri(team) ==
    CASE team = "NJ" -> "njd"
      [] team = "NJD " -> "njd"
      [] team = "Col" -> "col"

WeekReturned == mpc = "week"

\* The game-date set fetched for the team of player i and week_start is
\* what the matrix holds under that player's name.
HasOwnTeamDates(i) ==
    LET key == <<ExpectedTri(players[i].team), IsoFormat(week_start)>>
    IN  /\ key \in DOMAIN nhl_schedule_cache
        /\ players[i].name \in DOMAIN matrix
        /\ matrix[players[i].name] = nhl_schedule_cache[key]

\* No player later in the list has the name of player i and another team.
NotShadowed(i) ==
    \A k \in (i + 1)..Len(players) :
        players[k].name = players[i].name =>
            ExpectedTri(players[k].team) = ExpectedTri(players[i].team)

\* C8 as stated: for every player of the list, same-named players of
\* different teams included, the entry under the player's name is the
\* game-date set of the player's own team for week_start.
C8_OwnTeamDates ==
    WeekReturned => \A i \in 1..Len(players) : HasOwnTeamDates(i)

\* C8 amended: the entry under a player's name is the game-date set of the
\* player's own team for week_start unless a later player of the list has
\* the same name and another team (whose set the entry then holds).
C8_OwnTeamDatesUnlessShadowed ==
    WeekReturned =>
        \A i \in 1..Len(players) :
            /\ NotShadowed(i) => HasOwnTeamDates(i)
            /\ players[i].name \in DOMAIN matrix
            /\ \E k \in i..Len(players) :
                  players[k].name = players[i].name /\ HasOwnTeamDates(k)

\* Two Ahos of two teams with different schedules: the entry is the
\* second one's.
C8_Witness ==
    /\ WeekReturned
    /\ Len(players) = 2
    /\ players[1].name = players[2].name
    /\ ~HasOwnTeamDates(1)
    /\ HasOwnTeamDates(2)

\* C9: the schedule provider is requested at most once per (NHL team code,
\* week_start) pair whose first request succeeded, over all the
\* build_player_game_matrix / build_single_date_game_matrix calls made.
C9_RequestedOnce ==
    \A key \in DOMAIN first_request :
        first_request[key] = "ok" => requests[key] = 1

\* Two calls for players of one team and the same week, the second a
\* single-date call: one URL requested, once.
C9_Witness ==
    /\ calls = 2
    /\ mpc = "day"
    /\ Len(players) = 2
    /\ \A i \in 1..Len(players) : ExpectedTri(players[i].team) = "njd"
    /\ DOMAIN requests = {<<"njd", IsoFormat(week_start)>>}
    /\ requests[<<"njd", IsoFormat(week_start)>>] = 1
    /\ first_request[<<"njd", IsoFormat(week_start)>>] = "ok"

SameTeam(i, j) == ExpectedTri(players[i].team) = ExpectedTri(players[j].team)

SameDates(i, j) ==
    /\ players[i].name \in DOMAIN matrix
    /\ players[j].name \in DOMAIN matrix
    /\ matrix[players[i].name] = matrix[players[j].name]

\* C10 as stated: any two players whose team codes normalise to the same
\* NHL team receive identical date-sets.
C10_SameTeamSameDates ==
    WeekReturned =>
        \A i, j \in 1..Len(players) : SameTeam(i, j) => SameDates(i, j)

\* C10 amended: any two players whose team codes normalise to the same NHL
\* team receive identical date-sets, provided neither name is also the
\* name of a later player of another team.
C10_SameTeamSameDatesUnlessShadowed ==
    WeekReturned =>
        \A i, j \in 1..Len(players) :
            (SameTeam(i, j) /\ NotShadowed(i) /\ NotShadowed(j)) => SameDates(i, j)

\* "NJ" and "NJD " are one team: one non-empty set for both players, while
\* the other team of the roster has another set.
C10_Witness ==
    /\ WeekReturned
    /\ players = <<Player("Aho", "Col", {"C"}), Player("Aho", "NJ", {"C"}),
                   Player("Kane", "NJD ", {"C"})>>
    /\ matrix["Aho"] = matrix["Kane"]
    /\ matrix["Aho"] # {}
    /\ nhl_schedule_cache[<<"col", IsoFormat(week_start)>>] # matrix["Aho"]

\* The provider failed: no usable HTTP/JSON answer, or a JSON object
\* without a list under one of the keys the code knows.
ProviderFailed(r) ==
    \/ r.status = "error"
    \/ ~(r.key \in {"games", "gameWeek", "weekGames"} /\ r.is_list)

\* C11: when the provider fails for a team, fetch_team_week_games raises;
\* it neither returns nor caches an empty date-set in place of the result.
C11_FailureSurfaced ==
    (mpc = "fetch" /\ ProviderFailed(response)) =>
        /\ fetched.raised
        /\ CacheKey(fetch_tri, week_start) \notin DOMAIN nhl_schedule_cache

\* C12: every date in the set a fetch_team_week_games(team, week_start)
\* call returns lies in week_start .. week_start + 6, whatever the
\* provider answered.
C12_DatesInWeek ==
    (mpc \in {"fetch", "fetch_cached"} /\ ~fetched.raised) =>
        \A d \in fetched.dates : week_start <= d /\ d <= week_start + 6

DayReturned == mpc = "day"

\* The single-date result `day` says of every name whether `date` is in
\* that name's set of the week result `week`.
DayOfWeek(day, week, date) ==
    /\ DOMAIN day = DOMAIN week
    /\ \A name \in DOMAIN day : day[name] = (date \in week[name])

\* C13: build_single_date_game_matrix(players, date)[name] is the truth
\* of date \in build_player_game_matrix(players, week_start_monday(date))
\* [name] for every name, and either call finds in the cache the entries
\* the other one left there: it asks the provider nothing and changes
\* nothing.
C13_DayIsWeekMembership ==
    /\ DayReturned =>
         \A o \in build_player_game_matrix(
                     players, week_start_monday(target_date), State) :
            ~o.raised /\ o.st = State
            /\ DayOfWeek(matrix, o.result, target_date)
    /\ WeekReturned =>
         \A d \in {e \in Dates : week_start_monday(e) = week_start} :
            \A o \in build_single_date_game_matrix(players, d, State) :
               ~o.raised /\ o.st = State /\ DayOfWeek(o.result, matrix, d)

\* A single-date result with a playing and a resting name, two players
\* sharing one of the names.
C13_Witness ==
    /\ DayReturned
    /\ \E i, j \in 1..Len(players) : i < j /\ players[i].name = players[j].name
    /\ \E n, m \in DOMAIN matrix : matrix[n] /\ ~matrix[m]

\* C14: the schedule cache is insert-if-absent. No step of a run changes
\* or removes the value of a key that is present: not a fetch, a build or
\* a solver call, and not the --force clear either, which runs at
\* start-up and leaves the cache empty. A lookup that is answered from
\* the cache returns the value stored under its own team and week_start.
C14_InsertIfAbsent ==
    [][/\ \A k \in DOMAIN nhl_schedule_cache :
            /\ k \in DOMAIN nhl_schedule_cache'
            /\ nhl_schedule_cache'[k] = nhl_schedule_cache[k]
       /\ mpc' = "cleared" => nhl_schedule_cache' = <<>>
       /\ mpc' = "fetch_cached" =>
            LET k == <<fetch_tri', IsoTable[week_start']>>
            IN  /\ k \in DOMAIN nhl_schedule_cache
                /\ fetched' = [raised |-> FALSE,
                               dates |-> nhl_schedule_cache[k]]]_vars

\* A lookup answered from a cache that holds two keys with different
\* values.
C14_Witness ==
    /\ mpc = "fetch_cached"
    /\ \E k1, k2 \in DOMAIN nhl_schedule_cache :
        nhl_schedule_cache[k1] # nhl_schedule_cache[k2]

\* The step is one call of solve_daily_assignment and nothing else.
BareCall == Returned' /\ pc' \in {"solved", "resolved"} /\ pc' # pc

\* a is a dict from slot indices to player indices of the two lists.
IsMapping(a, ap, sl) ==
    /\ DOMAIN a \subseteq 1..Len(sl)
    /\ \A s \in DOMAIN a : a[s] \in 1..Len(ap)

\* What any call on the present lists returns: some mapping from slots to
\* players, of the cardinality of the assignment held.
FreshCallAgrees ==
    Returned =>
        /\ IsMapping(assignment, active_players, slots)
        /\ LET R == solve_daily_assignment(active_players, slots)
           IN  R # {} /\ \A a \in R : Size(a) = Size(assignment)

\* C15: solve_daily_assignment is pure and total. Every call returns a
\* mapping from slots to players; a call leaves the player list, the slot
\* list and the schedule cache as they were; and the cardinality returned
\* is the one any call on these lists returns, whatever calls were made
\* before.
C15_PureAndTotal ==
    /\ []FreshCallAgrees
    /\ [][/\ BareCall => (active_players' = active_players /\ slots' = slots)
          /\ nhl_schedule_cache' = nhl_schedule_cache]_vars

\* A call made after an add or a drop and the call that followed it, on
\* lists that leave a slot empty and a player unused.
C15_Witness ==
    /\ pc = "resolved"
    /\ Len(slots) = 3 /\ Len(active_players) = 2
    /\ Size(assignment) = 1

\* The data were fetched during the run.
FromThisRun(data) == \A d \in data : d.at >= RunStart

\* C16: in a run started with --force nothing cached before the run is
\* used: the free-agent list, every season-stats answer, those of later
\* get_games_played calls included, and every schedule entry come from a
\* request made during the run.
C16_ForceUsesRunData ==
    force =>
        /\ FromThisRun(available_players)
        /\ FromThisRun(stats_map)
        /\ mpc # "start" => DOMAIN nhl_schedule_cache \subseteq DOMAIN requests

\* The surplus of label L: players eligible for it beyond its slots.
Surplus(L) ==
    Max({0, Cardinality({i \in 1..Len(active_players) :
                            L \in active_players[i].pos})
            - Cardinality({s \in 1..Len(slots) : slots[s] = L})})

\* C17: calculate_idle_players reports for every label the number of
\* players eligible for it beyond the slots of that label, never less
\* than 0; a label is a key of the result exactly when that number is
\* positive; and the assignment the solver returned has no part in it.
C17_IdleIsSurplus ==
    pc = "idle" =>
        /\ DOMAIN idle_by_pos \subseteq Labels
        /\ \A L \in Labels :
            /\ L \in DOMAIN idle_by_pos <=> Surplus(L) > 0
            /\ L \in DOMAIN idle_by_pos => idle_by_pos[L] = Surplus(L)

\* A result with a surplus of two under one label and none under the
\* other, which has eligible players, after the solver filled two slots.
C17_Witness ==
    /\ pc = "idle"
    /\ \E L \in DOMAIN idle_by_pos : idle_by_pos[L] = 2
    /\ \E L \in Labels \ DOMAIN idle_by_pos :
          \E i \in 1..Len(active_players) : L \in active_players[i].pos
    /\ Size(assignment) = 2

Reported == wpc = "reported"

\* The days of the run on which the solver filled slot s.
FilledDays(s) ==
    Cardinality({c \in 1..Len(days_log) : s \in DOMAIN days_log[c].assignment})

\* pct is the fraction filled / total, and lies in 0..100.
IsRatio(pct, filled, total) ==
    /\ pct.den > 0
    /\ pct.num * total = filled * 100 * pct.den
    /\ 0 <= pct.num /\ pct.num <= 100 * pct.den

JanuaryMondays == {1, 8, 15, 22, 29}

\* C19: week_start_monday(d) is a Monday with week_start_monday(d) <= d
\* <= week_start_monday(d) + 6, and applying it again changes nothing;
\* every week_start that week mode passes to build_player_game_matrix is
\* this Monday of the run's date plus a whole number of weeks.
C19_MondayOfWeek ==
    /\ wpc \notin {"idle", "start"} =>
         /\ initial_week_start \in JanuaryMondays
         /\ initial_week_start <= run_date
         /\ run_date <= initial_week_start + 6
         /\ week_start_monday(initial_week_start) = initial_week_start
    /\ mpc \in {"week", "week_raised"} =>
         /\ week_start \in JanuaryMondays
         /\ \E k \in 0..(weeks - 1) : week_start = initial_week_start + 7 * k

\* The second week's matrix was built in a run started on a Sunday.
C19_Witness ==
    /\ wpc = "days"
    /\ run_date = 7
    /\ initial_week_start = 1
    /\ week_start = 8

\* The player whose entry the week's matrix holds under the name of
\* player i: the last one of that name.
NameOwner(i) ==
    Max({j \in 1..Len(players) : players[j].name = players[i].name})

\* The game-date set held for player i in the week that starts on ws.
GameDatesOf(i, ws) ==
    nhl_schedule_cache[<<ExpectedTri(players[NameOwner(i)].team), IsoTable[ws]>>]

\* seq lists, in roster order, exactly the players of the indices in I.
IsSublist(seq, I) ==
    /\ Len(seq) = Cardinality(I)
    /\ \A n \in 1..Len(seq) :
          \E i \in I : seq[n] = players[i]
                       /\ Cardinality({j \in I : j <= i}) = n

\* Column c of the grid is what the log says of its day: the day is the
\* c-th of the window, the active list holds precisely the players whose
\* game-date set of that week contains it, and the cell of slot s is "X"
\* exactly when s is a key of the day's assignment.
ColumnAsLogged(c) ==
    LET d == initial_week_start + c - 1
        ws == initial_week_start + 7 * ((c - 1) \div 7)
    IN  /\ days_log[c].date = d
        /\ IsSublist(days_log[c].active,
                     {i \in 1..Len(players) : d \in GameDatesOf(i, ws)})
        /\ \A s \in DOMAIN SLOTS :
              grid[s][c] = "X" <=> s \in DOMAIN days_log[c].assignment

\* The grid up to the day reached: logged columns as logged, the last
\* assignment one the solver returns for its active list, the rest empty.
GridAsLogged ==
    wpc \in {"loop", "days", "raised", "reported"} =>
        /\ \A c \in 1..Len(days_log) : ColumnAsLogged(c)
        /\ days_log # <<>> =>
              days_log[Len(days_log)].assignment \in
                  solve_daily_assignment(days_log[Len(days_log)].active, SLOTS)
        /\ \A s \in DOMAIN SLOTS :
              \A c \in (Len(days_log) + 1)..(weeks * 7) : grid[s][c] = ""

SlotsLabelled(k) == Cardinality({s \in DOMAIN SLOTS : SLOTS[s] = k})

Candidates ==
    {Player(available_players[i].name, available_players[i].team,
            available_players[i].pos) : i \in DOMAIN available_players}

SimulatedRosterSwaps ==
    (drop_player # {} /\ modified_players # <<>>) =>
        /\ modified_players[Len(modified_players)] \in Candidates
        /\ \A i \in DOMAIN modified_players : modified_players[i] \notin drop_player
        /\ Len(modified_players) = Len(players)

C21_DropReplaced == []SimulatedRosterSwaps /\ [][players' = players]_vars

\* C22: a free agent without a rank from the provider is recorded with
\* the fallback rank i + 1, its 1-based place in available_players, so
\* every recommendation carries an integer overall_rank and the sort of
\* the recommendations raises nothing.
FallbackRank(i) ==
    IF available_players[i].overall_rank = {} THEN {i}
    ELSE available_players[i].overall_rank

C22_FallbackRank ==
    /\ xpc = "simulate" =>
        \A i \in DOMAIN recommendations :
            recommendations[i].overall_rank = FallbackRank(i)
    /\ \A i \in DOMAIN recommendations : recommendations[i].overall_rank # {}
    /\ xpc # "sort_raised"

\* C23: an invocation that combines two of --compare-team, --player-swap,
\* --recommend-add and --available-fas, or one of them with --local,
\* returns 2 before any roster is fetched and before anything is
\* analysed; and an accepted --compare-team, --player-swap or
\* --recommend-add has one week analysed whatever --weeks says.
ModeNames == {"compare_team", "player_swap", "recommend_add", "available_fas"}

ModesGiven(Given(_)) == Cardinality({m \in ModeNames : Given(m)})

Rejected == exit_code = {2} /\ roster_fetches = 0 /\ weeks_analysed = {}

ModesExclusive(Given(_)) ==
    /\ (apc # "parsed" /\ (ModesGiven(Given) >= 2
                           \/ (ModesGiven(Given) >= 1 /\ args.local)))
        => Rejected
    /\ (/\ apc \in {"validated", "roster", "analysed"}
        /\ \E m \in ModeNames \ {"available_fas"} : Given(m))
        => args.weeks = 1 /\ weeks_analysed \subseteq {1}

OnCommandLine(m) == args[m] # {}

C23_ModesExclusive == ModesExclusive(OnCommandLine)

\* C23, amended: the same of the modes given a value that is not the
\* empty string (--player-swap always is: it takes two values).
NonEmpty(m) == IF m = "player_swap" THEN args[m] # {} ELSE Truthy(args[m])

C23_ModesExclusiveNonEmpty == ModesExclusive(NonEmpty)

C23_Witness ==
    /\ apc = "returned"
    /\ NonEmpty("recommend_add")
    /\ NonEmpty("compare_team")
    /\ ~args.local /\ ~args.day /\ args.player_swap = {}
    /\ Rejected

\* C24: in the list sort_slots_by_efficiency returns the slot indices
\* stand grouped by label in the order C, LW, RW, D, G; within a label
\* the fill counts never increase from first to last, and slots of equal
\* fill count keep their index order.
PlaceOf(label) == CHOOSE n \in DOMAIN GroupOrder : GroupOrder[n] = label

FillCount(s) == FilledCells(grid[s])

InGroupOrder(r, a, b) ==
    /\ slots[r[a]] \in {GroupOrder[n] : n \in DOMAIN GroupOrder}
    /\ PlaceOf(slots[r[a]]) <= PlaceOf(slots[r[b]])
    /\ slots[r[a]] = slots[r[b]] =>
        /\ FillCount(r[a]) >= FillCount(r[b])
        /\ FillCount(r[a]) = FillCount(r[b]) => r[a] < r[b]

C24_GroupedByLabelThenFill ==
    \A r \in sorted_indices :
        \A a, b \in DOMAIN r : a < b => InGroupOrder(r, a, b)

C24_Witness ==
    \E r \in sorted_indices :
        /\ \E a, b \in DOMAIN r :
            /\ a < b /\ slots[r[a]] = slots[r[b]]
            /\ FillCount(r[a]) > FillCount(r[b]) /\ r[a] > r[b]
        /\ \E a, b \in DOMAIN r :
            /\ a < b /\ slots[r[a]] = slots[r[b]]
            /\ FillCount(r[a]) = FillCount(r[b])

\* C25: for every slot list, those with labels other than C, LW, RW, D, G
\* included, the list sort_slots_by_efficiency returns is a permutation of
\* all slot indices, so that every row of the table is printed once.
C25_PermutationOfSlots ==
    \A r \in sorted_indices :
        /\ Len(r) = Len(slots)
        /\ {r[a] : a \in DOMAIN r} = DOMAIN slots

\* C26: once the in-memory cache is populated, a later call with
\* force_refresh = False made less than the 24-hour TTL after the
\* population returns the cached map and asks the provider nothing; a
\* call made when the TTL has passed and the disk holds no fresh cache,
\* or a call with force_refresh = True, asks the provider.
CallMade == ppc \in {"loop", "returned"}

Populated == before_call.mem # {} /\ before_call.ts # {}

SincePopulation == current_time - TheFile(before_call.ts)

NoFreshDisk ==
    \/ before_call.disk = {}
    \/ current_time - TheFile(before_call.disk).mtime > 86400
    \/ TheFile(before_call.disk).data = {}

ProviderAsked == ppc = "loop" \/ page_log # <<>>

C26_FreshCacheServes ==
    (CallMade /\ Populated) =>
        /\ (~call_force /\ SincePopulation < 86400) =>
            /\ ppc = "returned"
            /\ stats_map = before_call.mem
            /\ page_log = <<>>
        /\ (call_force \/ (SincePopulation >= 86400 /\ NoFreshDisk)) =>
            ProviderAsked

C26_Witness ==
    /\ ppc = "returned"
    /\ Populated
    /\ ~call_force
    /\ SincePopulation > 0
    /\ SincePopulation < 86400
    /\ stats_map = before_call.mem
    /\ page_log = <<>>

\* C27: the pagination loop ends for every provider that reports a fixed
\* total: a pass that got its page either stops on an empty page or
\* raises total_fetched, and the loop stops as soon as total_fetched >=
\* total; the offsets asked for are 0, 100, 200, ... in that order, and
\* when every page but the last held 100 records the map returned covers
\* all records.
LastPage == page_log[Len(page_log)]

PassMakesProgress ==
    (ppc = "loop" /\ page_log' # page_log /\ LastPage'.status = "ok") =>
        \/ LastPage'.n = 0 /\ ppc' = "returned"
        \/ total_fetched' > total_fetched

StopsAtTotal ==
    (ppc = "loop" /\ page_log # <<>> /\ provider.total # {}) =>
        \A total \in provider.total : total_fetched < total

OffsetsInOrder ==
    \A i \in DOMAIN page_log : page_log[i].start = (i - 1) * 100

FullPagesFetched ==
    /\ ppc = "returned"
    /\ page_log # <<>>
    /\ LastPage.status = "ok"
    /\ provider.total # {}
    /\ \A i \in 1..(Len(page_log) - 1) : page_log[i].n = 100

CoversAllRecords ==
    FullPagesFetched =>
        \A m \in stats_map : m.ids = 1..provider.records

RequestFailed ==
    ppc = "returned" /\ page_log # <<>> /\ LastPage.status = "error"

C28_FailureLeavesCaches ==
    /\ ppc = "loop" => StatsState = before_call
    /\ RequestFailed => stats_map = {} /\ StatsState = before_call

C28_Witness ==
    /\ RequestFailed
    /\ Len(page_log) > 1
    /\ page_map # {}
    /\ before_call.mem # {}
    /\ StatsState = before_call
    /\ stats_map = {}

\* -- C29 -------------------------------------------------------------

\* The network calls of the call under way, in order.
NetworkCalls == SelectSeq(trace, LAMBDA e : e # "check")

\* The stored access token is present and more than 60 seconds from
\* expiry.
StoredTokenValid(c) ==
    /\ c.access # {}
    /\ c.expiry # {}
    /\ TheFile(c.expiry) - c.time > Buffer

ValidReturnsQuietly ==
    \A c \in at_call :
        StoredTokenValid(c) =>
            /\ NetworkCalls = <<>>
            /\ upc = IF configured THEN "returned" ELSE "raised"

RefreshFirst ==
    \A c \in at_call :
        (configured /\ ~StoredTokenValid(c) /\ c.refresh # {}) =>
            IF NetworkCalls = <<>> THEN upc = "refresh"
            ELSE Head(NetworkCalls) = "refresh"

BrowserStarted ==
    \/ upc = "browser"
    \/ \E i \in 1..Len(trace) : trace[i] = "browser"

BrowserOnlyWithoutRefresh ==
    BrowserStarted =>
        /\ at_call # {}
        /\ \A c \in at_call :
              /\ ~StoredTokenValid(c)
              /\ c.refresh = {} \/ refresh_result = "failed"

CheckBeforeRequest ==
    /\ upc = "send" => Len(trace) > 0 /\ Head(trace) = "check"
    /\ \A i \in 1..Len(trace) :
          trace[i] = "request" => \E j \in 1..(i - 1) : trace[j] = "check"

====
